---- MODULE Spec2Model ----
(***************************************************************************)
(* Model of the Alpha Vantage client (src/alphavantage/client.py) and of   *)
(* the response models it builds (src/alphavantage/models.py).             *)
(*                                                                         *)
(* Python strings are sequences of atoms (an atom is a character or a run  *)
(* of characters that no operation of the program splits).  Every Python   *)
(* value is a tagged record [t |-> tag, v |-> content], so that values of  *)
(* different Python types are always comparable.                           *)
(***************************************************************************)
EXTENDS Integers, Sequences, FiniteSets, TLC

VARIABLES
    instance,   \* "absent" until AlphaVantageClient.__init__ has returned, then "live"
    api_key,    \* self.api_key
    base_url,   \* self.base_url
    session,    \* self.session
    calls,      \* number of endpoint operations invoked so far
    call,       \* the operation invoked last, its arguments and its endpoint identifier
    reply,      \* what the transport answered to the last operation's GET
    sent,       \* the GET requests the last operation handed to the transport
    logged,     \* the records the last operation handed to the log handler
    made,       \* how _make_request ended in the last operation: returned data or a raised error
    result,     \* how the last operation ended: a returned value or a raised error
    pc,         \* "idle", or "awaiting" while an operation is blocked in session.get
    input,      \* a response model and the payload handed to it, outside any operation
    record,     \* how the construction of that model from the payload ended
    again       \* how its construction from the JSON form of the record ended

vars == <<instance, api_key, base_url, session, calls, call, reply, sent, logged, made,
          result, pc, input, record, again>>

--------------------------------------------------------------------------
(* Bounds of the model *)

MaxCalls == 2

--------------------------------------------------------------------------
(* Python values *)

None == [t |-> "none", v |-> <<>>]
Str(s) == [t |-> "str", v |-> s]
PyInt(n) == [t |-> "int", v |-> n]
Bool(b) == [t |-> "bool", v |-> b]
List(xs) == [t |-> "list", v |-> xs]
\* a dict keeps its items in insertion order; keys are strings (atom sequences)
Dict(items) == [t |-> "dict", v |-> items]
Item(k, val) == [k |-> k, v |-> val]

IsStr(x) == x.t = "str"
IsDict(x) == x.t = "dict"

\* bool(x)
Truthy(x) ==
    CASE x.t = "none" -> FALSE
      [] x.t = "str" -> x.v # <<>>
      [] x.t = "int" -> x.v # 0
      [] x.t = "bool" -> x.v
      [] x.t = "list" -> x.v # <<>>
      [] x.t = "dict" -> x.v # <<>>
      [] OTHER -> TRUE

\* a or b
Or(a, b) == IF Truthy(a) THEN a ELSE b

\* needle in hay, for two strings: hay has needle as a contiguous part
Contains(needle, hay) ==
    \E i \in 0..(Len(hay) - Len(needle)) : SubSeq(hay, i + 1, i + Len(needle)) = needle

\* key in d, for a dict d
DictHas(d, key) == \E i \in 1..Len(d.v) : d.v[i].k = key

\* d[key], for a key of d
DictGet(d, key) == d.v[CHOOSE i \in 1..Len(d.v) : d.v[i].k = key].v

\* d[key] = val: an existing key keeps its place, a new key goes last
DictSet(d, key, val) ==
    IF DictHas(d, key)
    THEN Dict([i \in 1..Len(d.v) |-> IF d.v[i].k = key THEN Item(key, val) ELSE d.v[i]])
    ELSE Dict(Append(d.v, Item(key, val)))

\* x in c: membership for a dict (its keys), a list (its elements) and a
\* string (substring); any other container raises TypeError
In(x, c) ==
    CASE c.t = "dict" -> IF IsStr(x) /\ DictHas(c, x.v) THEN "true" ELSE "false"
      [] c.t = "list" -> IF \E i \in 1..Len(c.v) : c.v[i] = x THEN "true" ELSE "false"
      [] c.t = "str" -> IF ~IsStr(x) THEN "TypeError"
                        ELSE IF Contains(x.v, c.v) THEN "true" ELSE "false"
      [] OTHER -> "TypeError"

RECURSIVE Repr(_), ReprItems(_, _), ReprElems(_, _)
\* repr(x), which is what "%s" prints for the elements of a dict or a list
Repr(x) ==
    CASE x.t = "none" -> <<"None">>
      [] x.t = "str" -> <<"'">> \o x.v \o <<"'">>
      [] x.t = "int" -> <<ToString(x.v)>>
      [] x.t = "bool" -> IF x.v THEN <<"True">> ELSE <<"False">>
      [] x.t = "list" -> <<"[">> \o ReprElems(x.v, 1) \o <<"]">>
      [] x.t = "dict" -> <<"{">> \o ReprItems(x.v, 1) \o <<"}">>
      [] OTHER -> <<"<object>">>
ReprItems(items, i) ==
    IF i > Len(items) THEN <<>>
    ELSE (IF i > 1 THEN <<", ">> ELSE <<>>)
         \o <<"'">> \o items[i].k \o <<"'", ": ">> \o Repr(items[i].v)
         \o ReprItems(items, i + 1)
ReprElems(xs, i) ==
    IF i > Len(xs) THEN <<>>
    ELSE (IF i > 1 THEN <<", ">> ELSE <<>>) \o Repr(xs[i]) \o ReprElems(xs, i + 1)

\* str(x), which is what "%s" prints for x itself
ToStr(x) == IF IsStr(x) THEN x.v ELSE Repr(x)

--------------------------------------------------------------------------
(* Results of the parsers *)

Digits == {"0", "1", "2", "3", "4", "5", "6", "7", "8", "9"}
DigitVal(c) == CHOOSE n \in 0..9 : ToString(n) = c

Bad == [ok |-> FALSE, val |-> None, next |-> 0]
Good(val, next) == [ok |-> TRUE, val |-> val, next |-> next]

--------------------------------------------------------------------------
(* Numbers and timestamps read from strings *)

\* a float: m / 10^e, with no trailing zero in the fraction (the decimal
\* value of the text; binary rounding is not modelled)
Float(m, e) == [t |-> "float", v |-> [m |-> m, e |-> e]]
RECURSIVE Normalize(_, _)
Normalize(m, e) == IF e > 0 /\ m % 10 = 0 THEN Normalize(m \div 10, e - 1) ELSE Float(m, e)

AllDigits(s) == \A i \in 1..Len(s) : s[i] \in Digits
RECURSIVE NatOf(_, _)
NatOf(s, acc) == IF s = <<>> THEN acc ELSE NatOf(Tail(s), acc * 10 + DigitVal(s[1]))

Whitespace == {" ", "\t", "\n"}
RECURSIVE LStrip(_, _), RStrip(_, _)
\* s.lstrip(chars), s.rstrip(chars)
LStrip(s, chars) == IF s # <<>> /\ s[1] \in chars THEN LStrip(Tail(s), chars) ELSE s
RStrip(s, chars) ==
    IF s # <<>> /\ s[Len(s)] \in chars THEN RStrip(SubSeq(s, 1, Len(s) - 1), chars) ELSE s

\* digits, digits.digits, digits. or .digits
ParseUnsigned(s) ==
    LET dots == {i \in 1..Len(s) : s[i] = "."}
    IN  IF dots = {}
        THEN IF s # <<>> /\ AllDigits(s) THEN Good(Normalize(NatOf(s, 0), 0), 0) ELSE Bad
        ELSE IF Cardinality(dots) > 1 THEN Bad
        ELSE LET d == CHOOSE i \in dots : TRUE
                 ip == SubSeq(s, 1, d - 1)
                 fp == SubSeq(s, d + 1, Len(s))
             IN  IF AllDigits(ip) /\ AllDigits(fp) /\ (ip # <<>> \/ fp # <<>>)
                 THEN Good(Normalize(NatOf(ip \o fp, 0), Len(fp)), 0)
                 ELSE Bad

\* float(s) for a string s: surrounding whitespace, a sign, decimal digits
\* (exponents, "inf" and "nan" are not among the texts of this model)
ParseFloat(s) ==
    LET u == RStrip(LStrip(s, Whitespace), Whitespace)
    IN  IF u # <<>> /\ u[1] = "-"
        THEN LET r == ParseUnsigned(Tail(u))
             IN  IF r.ok THEN Good(Float(0 - r.val.v.m, r.val.v.e), 0) ELSE Bad
        ELSE IF u # <<>> /\ u[1] = "+" THEN ParseUnsigned(Tail(u))
        ELSE ParseUnsigned(u)

\* int(s) for a string s: surrounding whitespace, a sign, decimal digits
ParseInt(s) ==
    LET u == RStrip(LStrip(s, Whitespace), Whitespace)
        body == IF u # <<>> /\ u[1] \in {"-", "+"} THEN Tail(u) ELSE u
    IN  IF body # <<>> /\ AllDigits(body)
        THEN Good(PyInt(IF u[1] = "-" THEN 0 - NatOf(body, 0) ELSE NatOf(body, 0)), 0)
        ELSE Bad

Datetime(Y, M, D, h, m, sec) == [t |-> "datetime", v |-> <<Y, M, D, h, m, sec>>]

IsLeap(Y) == (Y % 4 = 0 /\ Y % 100 # 0) \/ Y % 400 = 0
DaysInMonth(Y, M) ==
    CASE M \in {4, 6, 9, 11} -> 30
      [] M = 2 -> IF IsLeap(Y) THEN 29 ELSE 28
      [] OTHER -> 31

\* the number written by the `len` digits of s from i on, or -1
Seg(s, i, len) ==
    IF i + len - 1 <= Len(s) /\ AllDigits(SubSeq(s, i, i + len - 1))
    THEN NatOf(SubSeq(s, i, i + len - 1), 0)
    ELSE 0 - 1

\* the directives of "%Y%m%dT%H%M%S" as strptime's regular expression has
\* them: a two-digit alternative before a one-digit one
DirectiveMatches(d, len, n) ==
    CASE d = "m" -> IF len = 2 THEN n \in 1..12 ELSE n \in 1..9
      [] d = "d" -> IF len = 2 THEN n \in 1..31 ELSE n \in 1..9
      [] d = "H" -> IF len = 2 THEN n \in 0..23 ELSE n \in 0..9
      [] d = "M" -> IF len = 2 THEN n \in 0..59 ELSE n \in 0..9
      [] d = "S" -> IF len = 2 THEN n \in 0..61 ELSE n \in 0..9

\* the start of each directive for the lengths L of %m %d %H %M %S
Starts(L) ==
    [m |-> 5, d |-> 5 + L[1], T |-> 5 + L[1] + L[2], H |-> 6 + L[1] + L[2],
     M |-> 6 + L[1] + L[2] + L[3], S |-> 6 + L[1] + L[2] + L[3] + L[4],
     end |-> 6 + L[1] + L[2] + L[3] + L[4] + L[5]]

RegexMatches(s, L) ==
    LET p == Starts(L)
    IN  /\ Seg(s, 1, 4) >= 0
        /\ DirectiveMatches("m", L[1], Seg(s, p.m, L[1]))
        /\ DirectiveMatches("d", L[2], Seg(s, p.d, L[2]))
        /\ p.T <= Len(s) /\ s[p.T] = "T"
        /\ DirectiveMatches("H", L[3], Seg(s, p.H, L[3]))
        /\ DirectiveMatches("M", L[4], Seg(s, p.M, L[4]))
        /\ DirectiveMatches("S", L[5], Seg(s, p.S, L[5]))

\* the regular expression tries its alternatives in order and backtracks:
\* L1 comes before L2 when, at the first directive where they differ, L1 takes
\* the two-digit alternative
TriedBefore(L1, L2) ==
    \E i \in 1..5 : L1[i] > L2[i] /\ \A j \in 1..(i - 1) : L1[j] = L2[j]

\* datetime.strptime(s, "%Y%m%dT%H%M%S"): the datetime, or ok = FALSE for
\* the ValueError
strptime(s) ==
    LET Ls == {L \in [1..5 -> {1, 2}] : RegexMatches(s, L)}
    IN  IF Ls = {} THEN Bad
        ELSE LET L == CHOOSE A \in Ls : \A B \in Ls : A = B \/ TriedBefore(A, B)
                 p == Starts(L)
                 Y == Seg(s, 1, 4)
                 M == Seg(s, p.m, L[1])
                 D == Seg(s, p.d, L[2])
                 sec == Seg(s, p.S, L[5])
             IN  IF p.end # Len(s) + 1 THEN Bad        \* unconverted data remains
                 ELSE IF Y < 1 \/ D > DaysInMonth(Y, M) \/ sec > 59 THEN Bad
                 ELSE Good(Datetime(Y, M, D, Seg(s, p.H, L[3]), Seg(s, p.M, L[4]), sec), 0)

--------------------------------------------------------------------------
(* JSON decoding of a response body: response.json() *)

QUOTE == "\""

\* a string: the atoms between the quote at i and the next quote
ParseString(toks, i) ==
    LET closes == {j \in (i + 1)..Len(toks) : toks[j] = QUOTE}
    IN  IF closes = {} THEN Bad
        ELSE LET j == CHOOSE c \in closes : \A d \in closes : c <= d
             IN  Good(Str(SubSeq(toks, i + 1, j - 1)), j + 1)

\* the first position from i on that holds no digit
RECURSIVE RunEnd(_, _)
RunEnd(toks, i) == IF i <= Len(toks) /\ toks[i] \in Digits THEN RunEnd(toks, i + 1) ELSE i

\* a number that starts at i: -? digits (. digits)?
ParseNumber(toks, i) ==
    LET neg == toks[i] = "-"
        start == IF neg THEN i + 1 ELSE i
        intEnd == RunEnd(toks, start)
        fracEnd == RunEnd(toks, intEnd + 1)
        sign == IF neg THEN 0 - 1 ELSE 1
    IN  IF intEnd = start THEN Bad
        ELSE IF intEnd <= Len(toks) /\ toks[intEnd] = "."
        THEN IF fracEnd = intEnd + 1 THEN Bad
             ELSE Good(Normalize(sign * NatOf(SubSeq(toks, start, intEnd - 1)
                                              \o SubSeq(toks, intEnd + 1, fracEnd - 1), 0),
                                 fracEnd - intEnd - 1),
                       fracEnd)
        ELSE Good(PyInt(sign * NatOf(SubSeq(toks, start, intEnd - 1), 0)), intEnd)

\* the dict of the members read: a key that occurs twice keeps its first
\* place and its last value
DictOf(items) ==
    LET n == Len(items)
        firsts == {j \in 1..n : \A k \in 1..(j - 1) : items[k].k # items[j].k}
        nth(m) == CHOOSE j \in firsts : Cardinality({k \in firsts : k < j}) = m - 1
        last(key) == CHOOSE j \in 1..n :
                         items[j].k = key /\ \A k \in (j + 1)..n : items[k].k # key
    IN  IF Cardinality(firsts) = n THEN Dict(items)
        ELSE Dict([m \in 1..Cardinality(firsts) |->
                      Item(items[nth(m)].k, items[last(items[nth(m)].k)].v)])

\* members read so far: the items, the position after them, and whether the
\* closing brace was met
Run(items, next, closed) == [ok |-> TRUE, items |-> items, next |-> next, closed |-> closed]

RECURSIVE ParseValue(_, _), ParseMember(_, _), ParseRun(_, _, _), ParseMembers(_, _, _),
          ParseElements(_, _, _)
ParseValue(toks, i) ==
    IF i > Len(toks) THEN Bad
    ELSE CASE toks[i] = QUOTE -> ParseString(toks, i)
           [] toks[i] = "{" ->
                IF i + 1 <= Len(toks) /\ toks[i + 1] = "}"
                THEN Good(Dict(<<>>), i + 2)
                ELSE LET members == ParseMembers(toks, i + 1, 1)
                     IN  IF members.ok THEN Good(DictOf(members.items), members.next) ELSE Bad
           [] toks[i] = "[" ->
                IF i + 1 <= Len(toks) /\ toks[i + 1] = "]"
                THEN Good(List(<<>>), i + 2)
                ELSE ParseElements(toks, i + 1, <<>>)
           [] toks[i] = "null" -> Good(None, i + 1)
           [] toks[i] = "true" -> Good(Bool(TRUE), i + 1)
           [] toks[i] = "false" -> Good(Bool(FALSE), i + 1)
           [] toks[i] \in Digits \cup {"-"} -> ParseNumber(toks, i)
           [] OTHER -> Bad
\* one member of an object at i, "key" : value, with the , or } after it
ParseMember(toks, i) ==
    IF i > Len(toks) \/ toks[i] # QUOTE THEN Bad
    ELSE LET key == ParseString(toks, i)
         IN  IF ~key.ok \/ key.next > Len(toks) \/ toks[key.next] # ":" THEN Bad
             ELSE LET val == ParseValue(toks, key.next + 1)
                  IN  IF ~val.ok \/ val.next > Len(toks) THEN Bad
                      ELSE CASE toks[val.next] = "," ->
                                    Run(<<Item(key.val.v, val.val)>>, val.next + 1, FALSE)
                             [] toks[val.next] = "}" ->
                                    Run(<<Item(key.val.v, val.val)>>, val.next + 1, TRUE)
                             [] OTHER -> Bad
\* at most n members of an object from i on, read half by half
ParseRun(toks, i, n) ==
    IF n = 1 THEN ParseMember(toks, i)
    ELSE LET a == ParseRun(toks, i, n \div 2)
         IN  IF ~a.ok \/ a.closed THEN a
             ELSE LET b == ParseRun(toks, a.next, n - n \div 2)
                  IN  IF ~b.ok THEN Bad ELSE Run(a.items \o b.items, b.next, b.closed)
\* the members of an object from i on, "key" : value , ... }, read in runs
\* of n, 2n, 4n, ... members
ParseMembers(toks, i, n) ==
    LET a == ParseRun(toks, i, n)
    IN  IF ~a.ok \/ a.closed THEN a
        ELSE LET b == ParseMembers(toks, a.next, 2 * n)
             IN  IF ~b.ok THEN Bad ELSE Run(a.items \o b.items, b.next, b.closed)
\* the elements of an array from i on: value , ... ]
ParseElements(toks, i, acc) ==
    LET val == ParseValue(toks, i)
    IN  IF ~val.ok \/ val.next > Len(toks) THEN Bad
        ELSE CASE toks[val.next] = "," -> ParseElements(toks, val.next + 1, Append(acc, val.val))
               [] toks[val.next] = "]" -> Good(List(Append(acc, val.val)), val.next + 1)
               [] OTHER -> Bad

\* response.json(): the decoded body, or ok = FALSE where requests raises
\* its JSONDecodeError
json(text) ==
    LET r == ParseValue(text, 1)
    IN  IF r.ok /\ r.next = Len(text) + 1 THEN r ELSE Bad

--------------------------------------------------------------------------
(* Logging: the module's logger and its console handler *)

LevelNo(level) ==
    CASE level = "DEBUG" -> 10
      [] level = "INFO" -> 20
      [] level = "WARNING" -> 30
      [] level = "ERROR" -> 40

\* logger.setLevel(logging.INFO), console_handler.setLevel(logging.INFO):
\* the handler receives the records of level INFO and above
Log(level, msg) ==
    IF LevelNo(level) >= LevelNo("INFO") THEN <<[level |-> level, msg |-> msg]>> ELSE <<>>

--------------------------------------------------------------------------
(* Exceptions and outcomes of an operation *)

NoResult == [kind |-> "none", exc |-> "", status_code |-> 0, message |-> None, value |-> None]
Return(value) ==
    [kind |-> "return", exc |-> "", status_code |-> 0, message |-> None, value |-> value]
\* an exception without a status_code attribute carries status_code 0 here
Raise(exc, message) ==
    [kind |-> "raise", exc |-> exc, status_code |-> 0, message |-> message, value |-> None]

APIKeyError(message) == Raise("APIKeyError", message)
RateLimitError(message) == Raise("RateLimitError", message)
InvalidParameterError(message) == Raise("InvalidParameterError", message)
APIError(status_code, message) ==
    [kind |-> "raise", exc |-> "APIError", status_code |-> status_code,
     message |-> message, value |-> None]
TypeError == Raise("TypeError", None)

--------------------------------------------------------------------------
(* The transport: session.get *)

NoReply == [kind |-> "none", status_code |-> 0, text |-> <<>>, description |-> <<>>]
\* a response with a status code and a body
Response(status_code, text) ==
    [kind |-> "response", status_code |-> status_code, text |-> text, description |-> <<>>]
\* a requests.exceptions.RequestException raised by session.get
RequestException(description) ==
    [kind |-> "raise", status_code |-> 0, text |-> <<>>, description |-> description]

--------------------------------------------------------------------------
(* AlphaVantageClient._make_request *)

API_CALL_FREQUENCY == <<"API", " ", "call", " ", "frequency">>

\* variants of the status check: failure from 400 on; no failure at all
StatusIsErrorFrom400(status_code) == status_code >= 400
StatusIsErrorNever(status_code) == FALSE
\* response.status_code != 200
StatusIsError(status_code) == status_code # 200

\* "Error Message" in data
HasErrorMessage(data) == In(Str(<<"Error Message">>), data)

\* "Note" in data
HasNote(data) == In(Str(<<"Note">>), data)

\* a variant of the phrase check: "API" in note
IsFrequencyNoteLoose(note) == In(Str(<<"API">>), note)
\* "API call frequency" in note
IsFrequencyNote(note) == In(Str(API_CALL_FREQUENCY), note)

\* data[key] for the decoded body: only a dict can be indexed by a string
Subscript(data, key) == IF IsDict(data) THEN Good(DictGet(data, key), 0) ELSE Bad

\* a variant of the injection: the credential is left out
InjectParamsNoKey(kwargs, function, key) == DictSet(kwargs, <<"function">>, function)
\* params["function"] = function; params["apikey"] = self.api_key
InjectParams(kwargs, function, key) ==
    DictSet(DictSet(kwargs, <<"function">>, function), <<"apikey">>, key)

\* log_params = params.copy(), the masking of "apikey" being commented out
LogParams(params) == params

\* the except clause: a RequestException becomes APIError(500, ...)
RequestFailed(description) ==
    [logged |-> Log("ERROR", <<"Request failed - ">> \o description),
     result |-> APIError(500, Str(<<"Request failed: ">> \o description))]

\* the text of the JSONDecodeError that response.json() raises
JSONDecodeErrorText == <<"Expecting value">>

\* records logged, then the rest of the call
After(records, rest) == [logged |-> records \o rest.logged, result |-> rest.result]

\* an exception that no except clause of _make_request catches
Uncaught(error) == [logged |-> <<>>, result |-> error]

\* if response.status_code != 200: log the failure, raise APIError
BadStatus(response) ==
    [logged |-> Log("ERROR", <<"API request failed - Status: ",
                               ToString(response.status_code), ", Response: ">>
                             \o response.text),
     result |-> APIError(response.status_code, Str(response.text))]

\* a variant of the "Error Message" branch: the status of the error is 500
ErrorMessageFixedStatus(status_code, message) ==
    IF ~message.ok THEN Uncaught(TypeError)
    ELSE [logged |-> Log("ERROR", <<"API returned error - ">> \o ToStr(message.val)),
          result |-> APIError(500, message.val)]

\* if "Error Message" in data: log it, raise APIError; message is
\* data["Error Message"]
ErrorMessage(status_code, message) ==
    IF ~message.ok THEN Uncaught(TypeError)
    ELSE [logged |-> Log("ERROR", <<"API returned error - ">> \o ToStr(message.val)),
          result |-> APIError(status_code, message.val)]

\* the end of the try block: log the success, return data
Successful(function, data) ==
    [logged |-> Log("INFO", <<"API request successful - Function: ">> \o ToStr(function))
                \o Log("DEBUG", <<"Response data: ">> \o ToStr(data)),
     result |-> Return(data)]

\* a variant of the "Note" branch: every note raises RateLimitError
NotedAlwaysRaises(function, data, note) ==
    IF ~note.ok THEN Uncaught(TypeError)
    ELSE [logged |-> Log("WARNING", <<"API returned note: ">> \o ToStr(note.val))
                     \o Log("ERROR", <<"Rate limit exceeded">>),
          result |-> RateLimitError(note.val)]

\* if "Note" in data: warn; raise RateLimitError if the note has the phrase;
\* note is data["Note"]
Noted(function, data, note) ==
    IF ~note.ok THEN Uncaught(TypeError)
    ELSE After(Log("WARNING", <<"API returned note: ">> \o ToStr(note.val)),
               CASE IsFrequencyNote(note.val) = "TypeError" -> Uncaught(TypeError)
                 [] IsFrequencyNote(note.val) = "true" ->
                        [logged |-> Log("ERROR", <<"Rate limit exceeded">>),
                         result |-> RateLimitError(note.val)]
                 [] OTHER -> Successful(function, data))

\* a variant of the checks of the decoded body: "Note" before "Error Message"
SentinelsNoteFirst(function, status_code, data) ==
    CASE HasNote(data) = "TypeError" -> Uncaught(TypeError)
      [] HasNote(data) = "true" /\ IsFrequencyNote(Subscript(data, <<"Note">>).val) = "true" ->
            Noted(function, data, Subscript(data, <<"Note">>))
      [] HasErrorMessage(data) = "true" ->
            ErrorMessage(status_code, Subscript(data, <<"Error Message">>))
      [] HasNote(data) = "true" -> Noted(function, data, Subscript(data, <<"Note">>))
      [] OTHER -> Successful(function, data)

\* the checks of the decoded body, in the order of the code
Sentinels(function, status_code, data) ==
    CASE HasErrorMessage(data) = "TypeError" -> Uncaught(TypeError)
      [] HasErrorMessage(data) = "true" ->
            ErrorMessage(status_code, Subscript(data, <<"Error Message">>))
      [] HasNote(data) = "true" -> Noted(function, data, Subscript(data, <<"Note">>))
      [] OTHER -> Successful(function, data)

\* a variant of the decoding: the JSONDecodeError is no RequestException and
\* leaves _make_request as it is
DecodedEscaping(function, status_code, decoded) ==
    IF ~decoded.ok THEN Uncaught(Raise("JSONDecodeError", Str(JSONDecodeErrorText)))
    ELSE Sentinels(function, status_code, decoded.val)

\* data = response.json(): requests' JSONDecodeError is a RequestException
\* (requests >= 2.31.0, setup.py), which the except clause catches
Decoded(function, status_code, decoded) ==
    IF ~decoded.ok THEN RequestFailed(JSONDecodeErrorText)
    ELSE Sentinels(function, status_code, decoded.val)

\* the body of the try block once session.get has returned a response
Classify(function, response) ==
    After(Log("DEBUG", <<"Response status code: ", ToString(response.status_code)>>),
          IF StatusIsError(response.status_code)
          THEN BadStatus(response)
          ELSE Decoded(function, response.status_code, json(response.text)))

--------------------------------------------------------------------------
(* Construction: AlphaVantageClient.__init__ *)

DEFAULT_BASE_URL == Str(<<"https://www.alphavantage.co/query">>)

\* the api_key argument, the base_url argument, the value of
\* ALPHA_VANTAGE_API_KEY in the process environment and in the .env file
KeyArgs == {None, Str(<<>>), Str(<<"KEY1">>)}
BaseUrls == {DEFAULT_BASE_URL, Str(<<"http://localhost:8080/query">>)}
EnvironValues == {None, Str(<<>>), Str(<<"ENVKEY">>)}
DotenvValues == {None, Str(<<"DOTENVKEY">>)}

\* load_dotenv(); os.getenv("ALPHA_VANTAGE_API_KEY"): load_dotenv sets the
\* variables of the .env file that the environment does not already hold
getenv(environ, dotenv) == IF environ # None THEN environ ELSE dotenv

\* self.api_key = api_key or os.getenv("ALPHA_VANTAGE_API_KEY")
ResolveKey(key_arg, environ, dotenv) == Or(key_arg, getenv(environ, dotenv))

\* a variant of the key check: if self.api_key is None
KeyMissingWhenNone(key) == key = None
\* if not self.api_key: raise APIKeyError
KeyMissing(key) == ~Truthy(key)

InitArgs(key_arg, url, environ, dotenv) ==
    Dict(<<Item(<<"api_key">>, key_arg), Item(<<"base_url">>, url),
           Item(<<"environ">>, environ), Item(<<"dotenv">>, dotenv)>>)

__init__ ==
    \E key_arg \in KeyArgs, url \in BaseUrls, environ \in EnvironValues, dotenv \in DotenvValues :
        LET key == ResolveKey(key_arg, environ, dotenv)
        IN  /\ instance = "absent"
            /\ call' = [op |-> "__init__", function |-> None,
                        args |-> InitArgs(key_arg, url, environ, dotenv)]
            /\ sent' = <<>>
            /\ reply' = NoReply
            /\ made' = NoResult
            /\ IF KeyMissing(key)
               THEN /\ logged' = Log("ERROR", <<"No API key provided">>)
                    /\ result' = APIKeyError(Str(<<"No API key provided. Pass it as argument or set ALPHA_VANTAGE_API_KEY environment variable.">>))
                    /\ UNCHANGED <<instance, api_key, base_url, session>>
               ELSE /\ api_key' = key
                    /\ base_url' = url
                    /\ session' = Str(<<"requests.Session">>)
                    /\ instance' = "live"
                    /\ logged' = Log("INFO", <<"AlphaVantage client initialized with base URL: ">>
                                             \o ToStr(url))
                    /\ result' = Return(None)
            /\ UNCHANGED <<calls, pc, input, record, again>>

--------------------------------------------------------------------------
(* AlphaVantageClient._make_request, up to the call of session.get *)

\* a variant of the transmission: the request is sent a second time
TransmitTwice(request) == <<request, request>>
\* the GET requests one call of _make_request hands to the transport
Transmit(request) == <<request>>

\* an endpoint operation calls self._make_request(function, **kwargs): the
\* parameters are assembled, the request is logged and session.get is called
_make_request(op, args, function, kwargs) ==
    LET params == InjectParams(kwargs, function, api_key)
        log_params == LogParams(params)
        request == [url |-> base_url, params |-> params]
    IN  /\ instance = "live"
        /\ pc = "idle"
        /\ calls < MaxCalls
        /\ calls' = calls + 1
        /\ call' = [op |-> op, function |-> function, args |-> args]
        /\ logged' = Log("INFO", <<"Making API request - Function: ">> \o ToStr(function)
                                 \o <<", Params: ">> \o ToStr(log_params))
        /\ sent' = Transmit(request)
        /\ reply' = NoReply
        /\ made' = NoResult
        /\ result' = NoResult
        /\ pc' = "awaiting"
        /\ UNCHANGED <<instance, api_key, base_url, session, input, record, again>>

\* an endpoint operation raises before it calls _make_request
RaiseEarly(op, args, error) ==
    /\ instance = "live"
    /\ pc = "idle"
    /\ calls < MaxCalls
    /\ calls' = calls + 1
    /\ call' = [op |-> op, function |-> None, args |-> args]
    /\ logged' = <<>>
    /\ sent' = <<>>
    /\ reply' = NoReply
    /\ made' = NoResult
    /\ result' = error
    /\ pc' = "idle"
    /\ UNCHANGED <<instance, api_key, base_url, session, input, record, again>>

--------------------------------------------------------------------------
(* Arguments the callers pass *)

K(name, val) == Item(<<name>>, val)

Symbols == {Str(<<"IBM">>)}
OutputSizes == {Str(<<"compact">>)}
DataTypes == {Str(<<"json">>)}
Currencies == {Str(<<"EUR">>)}
Markets == {Str(<<"USD">>)}
IntervalArgs == {Str(<<"5min">>), Str(<<"60min">>), Str(<<"2min">>), None}
MonthArgs == {None, Str(<<>>), Str(<<"2024-01">>)}
Flags == {Bool(TRUE), Bool(FALSE)}

--------------------------------------------------------------------------
(* Stock time series operations *)

\* the list ["1min", "5min", "15min", "30min", "60min"]
INTERVALS == List(<<Str(<<"1min">>), Str(<<"5min">>), Str(<<"15min">>), Str(<<"30min">>),
                    Str(<<"60min">>)>>)

\* a variant of the interval check: nothing is rejected
IntervalInvalidNever(interval) == FALSE
\* interval not in ["1min", "5min", "15min", "30min", "60min"]
IntervalInvalid(interval) == In(interval, INTERVALS) # "true"

\* raise InvalidParameterError(f"Invalid interval: {interval}")
InvalidInterval(interval) ==
    InvalidParameterError(Str(<<"Invalid interval: ">> \o ToStr(interval)))

\* a variant of the flag text: str(flag), "True" or "False"
TrueFalseCapitalized(flag) == IF Truthy(flag) THEN Str(<<"True">>) ELSE Str(<<"False">>)

\* "true" if flag else "false"
TrueFalse(flag) == IF Truthy(flag) THEN Str(<<"true">>) ELSE Str(<<"false">>)

get_time_series_intraday ==
    \E symbol \in Symbols, interval \in IntervalArgs, adjusted \in Flags,
       extended_hours \in Flags, month \in MonthArgs, outputsize \in OutputSizes,
       datatype \in DataTypes :
        LET args == Dict(<<K("symbol", symbol), K("interval", interval),
                           K("adjusted", adjusted), K("extended_hours", extended_hours),
                           K("month", month), K("outputsize", outputsize),
                           K("datatype", datatype)>>)
            params == Dict(<<K("symbol", symbol), K("interval", interval),
                             K("adjusted", TrueFalse(adjusted)),
                             K("extended_hours", TrueFalse(extended_hours)),
                             K("outputsize", outputsize), K("datatype", datatype)>>)
        IN  IF IntervalInvalid(interval)
            THEN RaiseEarly("get_time_series_intraday", args, InvalidInterval(interval))
            ELSE IF Truthy(month)
            THEN _make_request("get_time_series_intraday", args,
                               Str(<<"TIME_SERIES_INTRADAY_EXTENDED">>),
                               DictSet(params, <<"month">>, month))
            ELSE _make_request("get_time_series_intraday", args,
                               Str(<<"TIME_SERIES_INTRADAY">>), params)

get_time_series_daily ==
    \E symbol \in Symbols, outputsize \in OutputSizes, datatype \in DataTypes :
        LET kwargs == Dict(<<K("symbol", symbol), K("outputsize", outputsize), K("datatype", datatype)>>)
        IN  _make_request("get_time_series_daily", kwargs, Str(<<"TIME_SERIES_DAILY">>), kwargs)

get_time_series_daily_adjusted ==
    \E symbol \in Symbols, outputsize \in OutputSizes, datatype \in DataTypes :
        LET kwargs == Dict(<<K("symbol", symbol), K("outputsize", outputsize), K("datatype", datatype)>>)
        IN  _make_request("get_time_series_daily_adjusted", kwargs, Str(<<"TIME_SERIES_DAILY_ADJUSTED">>), kwargs)

get_time_series_weekly ==
    \E symbol \in Symbols, datatype \in DataTypes :
        LET kwargs == Dict(<<K("symbol", symbol), K("datatype", datatype)>>)
        IN  _make_request("get_time_series_weekly", kwargs, Str(<<"TIME_SERIES_WEEKLY">>), kwargs)

get_time_series_weekly_adjusted ==
    \E symbol \in Symbols, datatype \in DataTypes :
        LET kwargs == Dict(<<K("symbol", symbol), K("datatype", datatype)>>)
        IN  _make_request("get_time_series_weekly_adjusted", kwargs, Str(<<"TIME_SERIES_WEEKLY_ADJUSTED">>), kwargs)

get_time_series_monthly ==
    \E symbol \in Symbols, datatype \in DataTypes :
        LET kwargs == Dict(<<K("symbol", symbol), K("datatype", datatype)>>)
        IN  _make_request("get_time_series_monthly", kwargs, Str(<<"TIME_SERIES_MONTHLY">>), kwargs)

get_time_series_monthly_adjusted ==
    \E symbol \in Symbols, datatype \in DataTypes :
        LET kwargs == Dict(<<K("symbol", symbol), K("datatype", datatype)>>)
        IN  _make_request("get_time_series_monthly_adjusted", kwargs, Str(<<"TIME_SERIES_MONTHLY_ADJUSTED">>), kwargs)

--------------------------------------------------------------------------
(* Forex operations *)

get_forex_intraday ==
    \E from_symbol \in Currencies, to_symbol \in Currencies, interval \in IntervalArgs,
       outputsize \in OutputSizes, datatype \in DataTypes :
        LET kwargs == Dict(<<K("from_symbol", from_symbol), K("to_symbol", to_symbol),
                             K("interval", interval), K("outputsize", outputsize),
                             K("datatype", datatype)>>)
        IN  IF IntervalInvalid(interval)
            THEN RaiseEarly("get_forex_intraday", kwargs, InvalidInterval(interval))
            ELSE _make_request("get_forex_intraday", kwargs, Str(<<"FX_INTRADAY">>), kwargs)

get_forex_daily ==
    \E from_symbol \in Currencies, to_symbol \in Currencies, outputsize \in OutputSizes, datatype \in DataTypes :
        LET kwargs == Dict(<<K("from_symbol", from_symbol), K("to_symbol", to_symbol), K("outputsize", outputsize), K("datatype", datatype)>>)
        IN  _make_request("get_forex_daily", kwargs, Str(<<"FX_DAILY">>), kwargs)

get_forex_weekly ==
    \E from_symbol \in Currencies, to_symbol \in Currencies, datatype \in DataTypes :
        LET kwargs == Dict(<<K("from_symbol", from_symbol), K("to_symbol", to_symbol), K("datatype", datatype)>>)
        IN  _make_request("get_forex_weekly", kwargs, Str(<<"FX_WEEKLY">>), kwargs)

get_forex_monthly ==
    \E from_symbol \in Currencies, to_symbol \in Currencies, datatype \in DataTypes :
        LET kwargs == Dict(<<K("from_symbol", from_symbol), K("to_symbol", to_symbol), K("datatype", datatype)>>)
        IN  _make_request("get_forex_monthly", kwargs, Str(<<"FX_MONTHLY">>), kwargs)

--------------------------------------------------------------------------
(* Crypto operations *)

get_crypto_intraday ==
    \E symbol \in Symbols, market \in Markets, interval \in IntervalArgs,
       outputsize \in OutputSizes, datatype \in DataTypes :
        LET kwargs == Dict(<<K("symbol", symbol), K("market", market),
                             K("interval", interval), K("outputsize", outputsize),
                             K("datatype", datatype)>>)
        IN  IF IntervalInvalid(interval)
            THEN RaiseEarly("get_crypto_intraday", kwargs, InvalidInterval(interval))
            ELSE _make_request("get_crypto_intraday", kwargs, Str(<<"CRYPTO_INTRADAY">>), kwargs)

get_crypto_daily ==
    \E symbol \in Symbols, market \in Markets, outputsize \in OutputSizes, datatype \in DataTypes :
        LET kwargs == Dict(<<K("symbol", symbol), K("market", market), K("outputsize", outputsize), K("datatype", datatype)>>)
        IN  _make_request("get_crypto_daily", kwargs, Str(<<"DIGITAL_CURRENCY_DAILY">>), kwargs)

get_crypto_weekly ==
    \E symbol \in Symbols, market \in Markets, datatype \in DataTypes :
        LET kwargs == Dict(<<K("symbol", symbol), K("market", market), K("datatype", datatype)>>)
        IN  _make_request("get_crypto_weekly", kwargs, Str(<<"DIGITAL_CURRENCY_WEEKLY">>), kwargs)

get_crypto_monthly ==
    \E symbol \in Symbols, market \in Markets, datatype \in DataTypes :
        LET kwargs == Dict(<<K("symbol", symbol), K("market", market), K("datatype", datatype)>>)
        IN  _make_request("get_crypto_monthly", kwargs, Str(<<"DIGITAL_CURRENCY_MONTHLY">>), kwargs)

--------------------------------------------------------------------------
(* Response models (pydantic BaseModel subclasses): the fields *)

\* a field: its name, its alias (the key of the payload), its type and
\* whether it is required; `item` names the model of a list's elements
Fld(name, alias, type, required, item) ==
    [name |-> <<name>>, alias |-> <<alias>>, type |-> type, required |-> required,
     item |-> item]

CompanyOverview_fields ==
    <<Fld("symbol", "Symbol", "str", TRUE, ""),
       Fld("asset_type", "AssetType", "str", TRUE, ""),
       Fld("name", "Name", "str", TRUE, ""),
       Fld("description", "Description", "str", TRUE, ""),
       Fld("cik", "CIK", "str", TRUE, ""),
       Fld("exchange", "Exchange", "str", TRUE, ""),
       Fld("currency", "Currency", "str", TRUE, ""),
       Fld("country", "Country", "str", TRUE, ""),
       Fld("sector", "Sector", "str", TRUE, ""),
       Fld("industry", "Industry", "str", TRUE, ""),
       Fld("address", "Address", "str", TRUE, ""),
       Fld("fiscal_year_end", "FiscalYearEnd", "str", TRUE, ""),
       Fld("latest_quarter", "LatestQuarter", "str", TRUE, ""),
       Fld("market_capitalization", "MarketCapitalization", "optfloat", FALSE, ""),
       Fld("ebitda", "EBITDA", "optfloat", FALSE, ""),
       Fld("pe_ratio", "PERatio", "optfloat", FALSE, ""),
       Fld("peg_ratio", "PEGRatio", "optfloat", FALSE, ""),
       Fld("book_value", "BookValue", "optfloat", FALSE, ""),
       Fld("dividend_per_share", "DividendPerShare", "optfloat", FALSE, ""),
       Fld("dividend_yield", "DividendYield", "optfloat", FALSE, ""),
       Fld("eps", "EPS", "optfloat", FALSE, ""),
       Fld("revenue_per_share_ttm", "RevenuePerShareTTM", "optfloat", FALSE, ""),
       Fld("profit_margin", "ProfitMargin", "optfloat", FALSE, ""),
       Fld("operating_margin_ttm", "OperatingMarginTTM", "optfloat", FALSE, ""),
       Fld("return_on_assets_ttm", "ReturnOnAssetsTTM", "optfloat", FALSE, ""),
       Fld("return_on_equity_ttm", "ReturnOnEquityTTM", "optfloat", FALSE, ""),
       Fld("revenue_ttm", "RevenueTTM", "optfloat", FALSE, ""),
       Fld("gross_profit_ttm", "GrossProfitTTM", "optfloat", FALSE, ""),
       Fld("diluted_eps_ttm", "DilutedEPSTTM", "optfloat", FALSE, ""),
       Fld("quarterly_earnings_growth_yoy", "QuarterlyEarningsGrowthYOY", "optfloat", FALSE, ""),
       Fld("quarterly_revenue_growth_yoy", "QuarterlyRevenueGrowthYOY", "optfloat", FALSE, ""),
       Fld("analyst_target_price", "AnalystTargetPrice", "optfloat", FALSE, ""),
       Fld("trailing_pe", "TrailingPE", "optfloat", FALSE, ""),
       Fld("forward_pe", "ForwardPE", "optfloat", FALSE, ""),
       Fld("price_to_sales_ratio_ttm", "PriceToSalesRatioTTM", "optfloat", FALSE, ""),
       Fld("price_to_book_ratio", "PriceToBookRatio", "optfloat", FALSE, ""),
       Fld("ev_to_revenue", "EVToRevenue", "optfloat", FALSE, ""),
       Fld("ev_to_ebitda", "EVToEBITDA", "optfloat", FALSE, ""),
       Fld("beta", "Beta", "optfloat", FALSE, ""),
       Fld("fifty_two_week_high", "52WeekHigh", "optfloat", FALSE, ""),
       Fld("fifty_two_week_low", "52WeekLow", "optfloat", FALSE, ""),
       Fld("fifty_day_moving_average", "50DayMovingAverage", "optfloat", FALSE, ""),
       Fld("two_hundred_day_moving_average", "200DayMovingAverage", "optfloat", FALSE, ""),
       Fld("shares_outstanding", "SharesOutstanding", "optfloat", FALSE, ""),
       Fld("dividend_date", "DividendDate", "str", TRUE, ""),
       Fld("ex_dividend_date", "ExDividendDate", "str", TRUE, "")>>

IncomeStatementItem_fields ==
    <<Fld("fiscal_date_ending", "fiscalDateEnding", "str", TRUE, ""),
       Fld("reported_currency", "reportedCurrency", "str", TRUE, ""),
       Fld("gross_profit", "grossProfit", "optfloat", FALSE, ""),
       Fld("total_revenue", "totalRevenue", "optfloat", FALSE, ""),
       Fld("cost_of_revenue", "costOfRevenue", "optfloat", FALSE, ""),
       Fld("cost_of_goods_and_services_sold", "costofGoodsAndServicesSold", "optfloat", FALSE, ""),
       Fld("operating_income", "operatingIncome", "optfloat", FALSE, ""),
       Fld("selling_general_and_administrative", "sellingGeneralAndAdministrative", "optfloat", FALSE, ""),
       Fld("research_and_development", "researchAndDevelopment", "optfloat", FALSE, ""),
       Fld("operating_expenses", "operatingExpenses", "optfloat", FALSE, ""),
       Fld("investment_income_net", "investmentIncomeNet", "optfloat", FALSE, ""),
       Fld("net_interest_income", "netInterestIncome", "optfloat", FALSE, ""),
       Fld("interest_income", "interestIncome", "optfloat", FALSE, ""),
       Fld("interest_expense", "interestExpense", "optfloat", FALSE, ""),
       Fld("non_interest_income", "nonInterestIncome", "optfloat", FALSE, ""),
       Fld("other_non_operating_income", "otherNonOperatingIncome", "optfloat", FALSE, ""),
       Fld("depreciation", "depreciation", "optfloat", FALSE, ""),
       Fld("depreciation_and_amortization", "depreciationAndAmortization", "optfloat", FALSE, ""),
       Fld("income_before_tax", "incomeBeforeTax", "optfloat", FALSE, ""),
       Fld("income_tax_expense", "incomeTaxExpense", "optfloat", FALSE, ""),
       Fld("interest_and_debt_expense", "interestAndDebtExpense", "optfloat", FALSE, ""),
       Fld("net_income_from_continuing_operations", "netIncomeFromContinuingOperations", "optfloat", FALSE, ""),
       Fld("comprehensive_income_net_of_tax", "comprehensiveIncomeNetOfTax", "optfloat", FALSE, ""),
       Fld("ebit", "ebit", "optfloat", FALSE, ""),
       Fld("ebitda", "ebitda", "optfloat", FALSE, ""),
       Fld("net_income", "netIncome", "optfloat", FALSE, "")>>

IncomeStatement_fields ==
    <<Fld("symbol", "symbol", "str", TRUE, ""),
       Fld("annual_reports", "annualReports", "list_model", TRUE, "IncomeStatementItem"),
       Fld("quarterly_reports", "quarterlyReports", "list_model", TRUE, "IncomeStatementItem")>>

BalanceSheetItem_fields ==
    <<Fld("fiscal_date_ending", "fiscalDateEnding", "str", TRUE, ""),
       Fld("reported_currency", "reportedCurrency", "str", TRUE, ""),
       Fld("total_assets", "totalAssets", "optfloat", FALSE, ""),
       Fld("total_current_assets", "totalCurrentAssets", "optfloat", FALSE, ""),
       Fld("cash_and_cash_equivalents_at_carrying_value", "cashAndCashEquivalentsAtCarryingValue", "optfloat", FALSE, ""),
       Fld("cash_and_short_term_investments", "cashAndShortTermInvestments", "optfloat", FALSE, ""),
       Fld("inventory", "inventory", "optfloat", FALSE, ""),
       Fld("current_net_receivables", "currentNetReceivables", "optfloat", FALSE, ""),
       Fld("total_non_current_assets", "totalNonCurrentAssets", "optfloat", FALSE, ""),
       Fld("property_plant_equipment", "propertyPlantEquipment", "optfloat", FALSE, ""),
       Fld("accumulated_depreciation_amortization_ppe", "accumulatedDepreciationAmortizationPPE", "optfloat", FALSE, ""),
       Fld("intangible_assets", "intangibleAssets", "optfloat", FALSE, ""),
       Fld("intangible_assets_excluding_goodwill", "intangibleAssetsExcludingGoodwill", "optfloat", FALSE, ""),
       Fld("goodwill", "goodwill", "optfloat", FALSE, ""),
       Fld("investments", "investments", "optfloat", FALSE, ""),
       Fld("long_term_investments", "longTermInvestments", "optfloat", FALSE, ""),
       Fld("short_term_investments", "shortTermInvestments", "optfloat", FALSE, ""),
       Fld("other_current_assets", "otherCurrentAssets", "optfloat", FALSE, ""),
       Fld("other_non_current_assets", "otherNonCurrentAssets", "optfloat", FALSE, ""),
       Fld("total_liabilities", "totalLiabilities", "optfloat", FALSE, ""),
       Fld("total_current_liabilities", "totalCurrentLiabilities", "optfloat", FALSE, ""),
       Fld("current_accounts_payable", "currentAccountsPayable", "optfloat", FALSE, ""),
       Fld("deferred_revenue", "deferredRevenue", "optfloat", FALSE, ""),
       Fld("current_debt", "currentDebt", "optfloat", FALSE, ""),
       Fld("short_term_debt", "shortTermDebt", "optfloat", FALSE, ""),
       Fld("total_non_current_liabilities", "totalNonCurrentLiabilities", "optfloat", FALSE, ""),
       Fld("capital_lease_obligations", "capitalLeaseObligations", "optfloat", FALSE, ""),
       Fld("long_term_debt", "longTermDebt", "optfloat", FALSE, ""),
       Fld("current_long_term_debt", "currentLongTermDebt", "optfloat", FALSE, ""),
       Fld("long_term_debt_noncurrent", "longTermDebtNoncurrent", "optfloat", FALSE, ""),
       Fld("short_long_term_debt_total", "shortLongTermDebtTotal", "optfloat", FALSE, ""),
       Fld("other_current_liabilities", "otherCurrentLiabilities", "optfloat", FALSE, ""),
       Fld("other_non_current_liabilities", "otherNonCurrentLiabilities", "optfloat", FALSE, ""),
       Fld("total_shareholder_equity", "totalShareholderEquity", "optfloat", FALSE, ""),
       Fld("treasury_stock", "treasuryStock", "optfloat", FALSE, ""),
       Fld("retained_earnings", "retainedEarnings", "optfloat", FALSE, ""),
       Fld("common_stock", "commonStock", "optfloat", FALSE, ""),
       Fld("common_stock_shares_outstanding", "commonStockSharesOutstanding", "optfloat", FALSE, "")>>

BalanceSheet_fields ==
    <<Fld("symbol", "symbol", "str", TRUE, ""),
       Fld("annual_reports", "annualReports", "list_model", TRUE, "BalanceSheetItem"),
       Fld("quarterly_reports", "quarterlyReports", "list_model", TRUE, "BalanceSheetItem")>>

CashFlowItem_fields ==
    <<Fld("fiscal_date_ending", "fiscalDateEnding", "str", TRUE, ""),
       Fld("reported_currency", "reportedCurrency", "str", TRUE, ""),
       Fld("operating_cashflow", "operatingCashflow", "optfloat", FALSE, ""),
       Fld("payments_for_operating_activities", "paymentsForOperatingActivities", "optfloat", FALSE, ""),
       Fld("proceeds_from_operating_activities", "proceedsFromOperatingActivities", "optfloat", FALSE, ""),
       Fld("change_in_operating_liabilities", "changeInOperatingLiabilities", "optfloat", FALSE, ""),
       Fld("change_in_operating_assets", "changeInOperatingAssets", "optfloat", FALSE, ""),
       Fld("depreciation_depletion_and_amortization", "depreciationDepletionAndAmortization", "optfloat", FALSE, ""),
       Fld("capital_expenditures", "capitalExpenditures", "optfloat", FALSE, ""),
       Fld("change_in_receivables", "changeInReceivables", "optfloat", FALSE, ""),
       Fld("change_in_inventory", "changeInInventory", "optfloat", FALSE, ""),
       Fld("profit_loss", "profitLoss", "optfloat", FALSE, ""),
       Fld("cashflow_from_investment", "cashflowFromInvestment", "optfloat", FALSE, ""),
       Fld("cashflow_from_financing", "cashflowFromFinancing", "optfloat", FALSE, ""),
       Fld("proceeds_from_repayments_of_short_term_debt", "proceedsFromRepaymentsOfShortTermDebt", "optfloat", FALSE, ""),
       Fld("payments_for_repurchase_of_common_stock", "paymentsForRepurchaseOfCommonStock", "optfloat", FALSE, ""),
       Fld("payments_for_repurchase_of_equity", "paymentsForRepurchaseOfEquity", "optfloat", FALSE, ""),
       Fld("payments_for_repurchase_of_preferred_stock", "paymentsForRepurchaseOfPreferredStock", "optfloat", FALSE, ""),
       Fld("dividend_payout", "dividendPayout", "optfloat", FALSE, ""),
       Fld("dividend_payout_common_stock", "dividendPayoutCommonStock", "optfloat", FALSE, ""),
       Fld("dividend_payout_preferred_stock", "dividendPayoutPreferredStock", "optfloat", FALSE, ""),
       Fld("proceeds_from_issuance_of_common_stock", "proceedsFromIssuanceOfCommonStock", "optfloat", FALSE, ""),
       Fld("proceeds_from_issuance_of_long_term_debt_and_capital_securities_net", "proceedsFromIssuanceOfLongTermDebtAndCapitalSecuritiesNet", "optfloat", FALSE, ""),
       Fld("proceeds_from_issuance_of_preferred_stock", "proceedsFromIssuanceOfPreferredStock", "optfloat", FALSE, ""),
       Fld("proceeds_from_repurchase_of_equity", "proceedsFromRepurchaseOfEquity", "optfloat", FALSE, ""),
       Fld("proceeds_from_sale_of_treasury_stock", "proceedsFromSaleOfTreasuryStock", "optfloat", FALSE, ""),
       Fld("change_in_cash_and_cash_equivalents", "changeInCashAndCashEquivalents", "optfloat", FALSE, ""),
       Fld("change_in_exchange_rate", "changeInExchangeRate", "optfloat", FALSE, ""),
       Fld("net_income", "netIncome", "optfloat", FALSE, "")>>

CashFlow_fields ==
    <<Fld("symbol", "symbol", "str", TRUE, ""),
       Fld("annual_reports", "annualReports", "list_model", TRUE, "CashFlowItem"),
       Fld("quarterly_reports", "quarterlyReports", "list_model", TRUE, "CashFlowItem")>>

EarningsItem_fields ==
    <<Fld("fiscal_date_ending", "fiscalDateEnding", "str", TRUE, ""),
       Fld("reported_eps", "reportedEPS", "optfloat", FALSE, ""),
       Fld("reported_date", "reportedDate", "optstr", FALSE, ""),
       Fld("estimated_eps", "estimatedEPS", "optfloat", FALSE, ""),
       Fld("surprise", "surprise", "optfloat", FALSE, ""),
       Fld("surprise_percentage", "surprisePercentage", "optfloat", FALSE, ""),
       Fld("report_time", "reportTime", "optstr", FALSE, "")>>

Earnings_fields ==
    <<Fld("symbol", "symbol", "str", TRUE, ""),
       Fld("annual_earnings", "annualEarnings", "list_model", TRUE, "EarningsItem"),
       Fld("quarterly_earnings", "quarterlyEarnings", "list_model", TRUE, "EarningsItem")>>

NewsSentiment_fields ==
    <<Fld("title", "title", "str", TRUE, ""),
       Fld("url", "url", "str", TRUE, ""),
       Fld("time_published", "time_published", "datetime", TRUE, ""),
       Fld("authors", "authors", "list_str", TRUE, ""),
       Fld("summary", "summary", "str", TRUE, ""),
       Fld("banner_image", "banner_image", "optstr", FALSE, ""),
       Fld("source", "source", "str", TRUE, ""),
       Fld("category_within_source", "category_within_source", "str", TRUE, ""),
       Fld("source_domain", "source_domain", "str", TRUE, ""),
       Fld("topics", "topics", "list_dict", TRUE, ""),
       Fld("overall_sentiment_score", "overall_sentiment_score", "optfloat", FALSE, ""),
       Fld("overall_sentiment_label", "overall_sentiment_label", "str", TRUE, ""),
       Fld("ticker_sentiment", "ticker_sentiment", "list_dict", TRUE, "")>>

NewsSentimentResponse_fields ==
    <<Fld("items", "items", "str", TRUE, ""),
       Fld("sentiment_score_definition", "sentiment_score_definition", "str", TRUE, ""),
       Fld("relevance_score_definition", "relevance_score_definition", "str", TRUE, ""),
       Fld("feed", "feed", "list_model", TRUE, "NewsSentiment")>>

TopGainerLoser_fields ==
    <<Fld("ticker", "ticker", "str", TRUE, ""),
       Fld("price", "price", "optfloat", FALSE, ""),
       Fld("change_amount", "change_amount", "optfloat", FALSE, ""),
       Fld("change_percentage", "change_percentage", "optfloat", FALSE, ""),
       Fld("volume", "volume", "optint", FALSE, "")>>

TopGainersLosers_fields ==
    <<Fld("metadata", "metadata", "str", TRUE, ""),
       Fld("last_updated", "last_updated", "str", TRUE, ""),
       Fld("top_gainers", "top_gainers", "list_model", TRUE, "TopGainerLoser"),
       Fld("top_losers", "top_losers", "list_model", TRUE, "TopGainerLoser"),
       Fld("most_actively_traded", "most_actively_traded", "list_model", TRUE, "TopGainerLoser")>>

Fields(cls) ==
    CASE cls = "CompanyOverview" -> CompanyOverview_fields
      [] cls = "IncomeStatementItem" -> IncomeStatementItem_fields
      [] cls = "IncomeStatement" -> IncomeStatement_fields
      [] cls = "BalanceSheetItem" -> BalanceSheetItem_fields
      [] cls = "BalanceSheet" -> BalanceSheet_fields
      [] cls = "CashFlowItem" -> CashFlowItem_fields
      [] cls = "CashFlow" -> CashFlow_fields
      [] cls = "EarningsItem" -> EarningsItem_fields
      [] cls = "Earnings" -> Earnings_fields
      [] cls = "NewsSentiment" -> NewsSentiment_fields
      [] cls = "NewsSentimentResponse" -> NewsSentimentResponse_fields
      [] cls = "TopGainerLoser" -> TopGainerLoser_fields
      [] cls = "TopGainersLosers" -> TopGainersLosers_fields

\* the models that declare @field_validator("*", mode="before") convert_none_str
HasConvertNoneStr(cls) ==
    cls \in {"CompanyOverview", "IncomeStatementItem", "BalanceSheetItem", "CashFlowItem",
             "EarningsItem", "NewsSentiment", "TopGainerLoser"}

--------------------------------------------------------------------------
(* Validation of a payload into a response model *)

Model(cls, items) == [t |-> "model", v |-> [cls |-> cls, fields |-> items]]

\* the outcome of validating one value: the value, or the errors found
Valid(val) == [ok |-> TRUE, val |-> val, errors |-> <<>>]
Invalid(errors) == [ok |-> FALSE, val |-> None, errors |-> errors]
ErrorAt(loc, type) == [loc |-> loc, type |-> type]
Fails(type) == Invalid(<<ErrorAt(<<>>, type)>>)

\* the errors of a field or of a list element, located under `where`
Under(where, errors) ==
    [i \in 1..Len(errors) |-> ErrorAt(<<where>> \o errors[i].loc, errors[i].type)]

\* convert_none_str: if v == "None": return None
convert_none_str(v) == IF v = Str(<<"None">>) THEN None ELSE v

\* a variant of parse_percentage: one trailing "%" is removed
parse_percentage_once(v) ==
    IF IsStr(v)
    THEN LET r == ParseFloat(IF v.v # <<>> /\ v.v[Len(v.v)] = "%"
                             THEN SubSeq(v.v, 1, Len(v.v) - 1) ELSE v.v)
         IN  IF r.ok THEN Valid(r.val) ELSE Fails("value_error")
    ELSE Valid(v)

\* TopGainerLoser.parse_percentage
parse_percentage(v) ==
    IF IsStr(v)
    THEN LET r == ParseFloat(RStrip(v.v, {"%"}))
         IN  IF r.ok THEN Valid(r.val) ELSE Fails("value_error")
    ELSE Valid(v)

\* NewsSentiment.parse_timestamp
parse_timestamp(v) ==
    IF IsStr(v)
    THEN LET r == strptime(v.v)
         IN  IF r.ok THEN Valid(r.val) ELSE Fails("value_error")
    ELSE Valid(v)

\* a variant of the order of the "before" validators: as they are declared,
\* parse_percentage and parse_timestamp before convert_none_str
BeforeValidatorsAsDeclared(cls, name, raw) ==
    LET first == CASE cls = "TopGainerLoser" /\ name = <<"change_percentage">> ->
                         parse_percentage(raw)
                   [] cls = "NewsSentiment" /\ name = <<"time_published">> ->
                         parse_timestamp(raw)
                   [] OTHER -> Valid(raw)
    IN  IF first.ok /\ HasConvertNoneStr(cls) THEN Valid(convert_none_str(first.val))
        ELSE first

\* the "before" validators of a field run last-declared first: convert_none_str,
\* declared after parse_percentage and parse_timestamp, runs before them
BeforeValidators(cls, name, raw) ==
    LET v == IF HasConvertNoneStr(cls) THEN convert_none_str(raw) ELSE raw
    IN  CASE cls = "TopGainerLoser" /\ name = <<"change_percentage">> -> parse_percentage(v)
          [] cls = "NewsSentiment" /\ name = <<"time_published">> -> parse_timestamp(v)
          [] OTHER -> Valid(v)

\* str
ValidateStr(v) == IF IsStr(v) THEN Valid(v) ELSE Fails("string_type")

\* float, from a float, an int, a bool or a numeric string
ValidateFloat(v) ==
    CASE v.t = "float" -> Valid(v)
      [] v.t = "int" -> Valid(Float(v.v, 0))
      [] v.t = "bool" -> Valid(Float(IF v.v THEN 1 ELSE 0, 0))
      [] v.t = "str" -> LET r == ParseFloat(v.v)
                        IN  IF r.ok THEN Valid(r.val) ELSE Fails("float_parsing")
      [] OTHER -> Fails("float_type")

\* a variant of the int validation: the value is taken as a float
ValidateIntAsFloat(v) == ValidateFloat(v)

\* int, from an int, a bool, a float without fraction or a string of digits
ValidateInt(v) ==
    CASE v.t = "int" -> Valid(v)
      [] v.t = "bool" -> Valid(PyInt(IF v.v THEN 1 ELSE 0))
      [] v.t = "float" -> IF v.v.e = 0 THEN Valid(PyInt(v.v.m)) ELSE Fails("int_from_float")
      [] v.t = "str" -> LET r == ParseInt(v.v)
                        IN  IF r.ok THEN Valid(r.val) ELSE Fails("int_parsing")
      [] OTHER -> Fails("int_type")

\* datetime, from a datetime or a number of seconds since the epoch (a
\* string never reaches this point: parse_timestamp has parsed or refused it)
ValidateDatetime(v) ==
    CASE v.t = "datetime" -> Valid(v)
      [] v.t = "int" -> Valid([t |-> "datetime", v |-> <<v.v>>])
      [] v.t = "str" -> Fails("datetime_from_date_parsing")
      [] OTHER -> Fails("datetime_type")

\* Union[str, float]
ValidateStrOrFloat(v) == IF IsStr(v) THEN Valid(v) ELSE ValidateFloat(v)

RECURSIVE Concat(_, _)
\* the sequences seqs[i], seqs[i + 1], ... joined
Concat(seqs, i) == IF i > Len(seqs) THEN <<>> ELSE seqs[i] \o Concat(seqs, i + 1)

\* the errors of the outcomes rs, the errors of rs[i] located under where[i]
ErrorsOf(rs, where) == Concat([i \in 1..Len(rs) |-> Under(where[i], rs[i].errors)], 1)

\* the values of a Dict[str, Union[str, float]], each under its key
ValidateDictValues(items) == [i \in 1..Len(items) |-> ValidateStrOrFloat(items[i].v)]

DictOutcome(items, rs) ==
    IF \A i \in 1..Len(rs) : rs[i].ok
    THEN Valid(Dict([i \in 1..Len(rs) |-> Item(items[i].k, rs[i].val)]))
    ELSE Invalid(ErrorsOf(rs, [i \in 1..Len(rs) |-> Str(items[i].k)]))
\* a variant of the list: the elements that fail are left out
ListOutcomeSkipping(rs) ==
    LET kept == SelectSeq(rs, LAMBDA r : r.ok)
    IN  Valid(List([i \in 1..Len(kept) |-> kept[i].val]))
\* the errors of a list's elements are located by their index, from 0
ListOutcome(rs) ==
    IF \A i \in 1..Len(rs) : rs[i].ok
    THEN Valid(List([i \in 1..Len(rs) |-> rs[i].val]))
    ELSE Invalid(ErrorsOf(rs, [i \in 1..Len(rs) |-> PyInt(i - 1)]))
\* the errors of a model's fields are located by their alias
ModelOutcome(cls, fields, rs) ==
    IF \A i \in 1..Len(rs) : rs[i].ok
    THEN Valid(Model(cls, [i \in 1..Len(rs) |-> Item(fields[i].name, rs[i].val)]))
    ELSE Invalid(ErrorsOf(rs, [i \in 1..Len(rs) |-> Str(fields[i].alias)]))

\* Dict[str, Union[str, float]]
ValidateDict(v) ==
    IF ~IsDict(v) THEN Fails("dict_type")
    ELSE DictOutcome(v.v, ValidateDictValues(v.v))

\* the type of the elements of a list field
ElemType(f) ==
    CASE f.type = "list_str" -> "str"
      [] f.type = "list_dict" -> "dict"
      [] OTHER -> f.item

\* a variant of the lookup: by alias only
PresentByAlias(data, f) == DictHas(data, f.alias)

\* the field of data that f names: by alias, then (populate_by_name) by name
Present(data, f) == DictHas(data, f.alias) \/ DictHas(data, f.name)
Raw(data, f) ==
    IF DictHas(data, f.alias) THEN DictGet(data, f.alias) ELSE DictGet(data, f.name)

\* a variant of the absent field: None, required or not
AbsentIsNone(f) == Valid(None)

\* an absent field is an error when required and None otherwise, untouched
\* by the validators
Absent(f) == IF f.required THEN Fails("missing") ELSE Valid(None)

RECURSIVE ValidateModel(_, _), ValidateFields(_, _, _), ValidateType(_, _),
          ValidateElems(_, _)

\* the elements of a list, each validated as the type elem
ValidateElems(elem, xs) == [i \in 1..Len(xs) |-> ValidateType(elem, xs[i])]

\* a value validated as the type of field f, once the "before" validators ran
ValidateType(f, v) ==
    CASE f.type = "str" -> ValidateStr(v)
      [] f.type = "optstr" -> IF v = None THEN Valid(None) ELSE ValidateStr(v)
      [] f.type = "optfloat" -> IF v = None THEN Valid(None) ELSE ValidateFloat(v)
      [] f.type = "optint" -> IF v = None THEN Valid(None) ELSE ValidateInt(v)
      [] f.type = "datetime" -> ValidateDatetime(v)
      [] f.type = "dict" -> ValidateDict(v)
      [] f.type \in {"list_str", "list_dict", "list_model"} ->
            IF v.t # "list" THEN Fails("list_type")
            ELSE ListOutcome(ValidateElems([type |-> ElemType(f)], v.v))
      [] OTHER -> \* a nested model, named by f.type
            IF v.t = "model" /\ v.v.cls = f.type THEN Valid(v)
            ELSE IF ~IsDict(v) THEN Fails("model_type")
            ELSE ValidateModel(f.type, v)

\* the value of field f once its "before" validators have run
AfterBefore(f, before) == IF before.ok THEN ValidateType(f, before.val) ELSE before

\* one field of cls, looked up in the dict data
ValidateField(cls, f, data) ==
    IF Present(data, f)
    THEN AfterBefore(f, BeforeValidators(cls, f.name, Raw(data, f)))
    ELSE Absent(f)

\* the fields of cls, each looked up in the dict data
ValidateFields(cls, fields, data) ==
    [i \in 1..Len(fields) |-> ValidateField(cls, fields[i], data)]

\* cls.model_validate(data) for a dict: the model, or every error found
ValidateModel(cls, data) ==
    ModelOutcome(cls, Fields(cls), ValidateFields(cls, Fields(cls), data))

ValidationError(cls, errors) ==
    Raise("ValidationError", [t |-> "errors", v |-> [title |-> cls, errors |-> errors]])

\* cls(**data): a model, a ValidationError, or a TypeError when data is no mapping
ConstructOutcome(cls, r) == IF r.ok THEN Return(r.val) ELSE ValidationError(cls, r.errors)
Construct(cls, data) ==
    IF ~IsDict(data) THEN TypeError ELSE ConstructOutcome(cls, ValidateModel(cls, data))

--------------------------------------------------------------------------
(* Fundamental data operations *)

get_company_overview ==
    \E symbol \in Symbols :
        LET kwargs == Dict(<<K("symbol", symbol)>>)
        IN  _make_request("get_company_overview", kwargs, Str(<<"OVERVIEW">>), kwargs)

get_income_statement ==
    \E symbol \in Symbols :
        LET kwargs == Dict(<<K("symbol", symbol)>>)
        IN  _make_request("get_income_statement", kwargs, Str(<<"INCOME_STATEMENT">>), kwargs)

get_balance_sheet ==
    \E symbol \in Symbols :
        LET kwargs == Dict(<<K("symbol", symbol)>>)
        IN  _make_request("get_balance_sheet", kwargs, Str(<<"BALANCE_SHEET">>), kwargs)

get_cash_flow ==
    \E symbol \in Symbols :
        LET kwargs == Dict(<<K("symbol", symbol)>>)
        IN  _make_request("get_cash_flow", kwargs, Str(<<"CASH_FLOW">>), kwargs)

get_earnings ==
    \E symbol \in Symbols :
        LET kwargs == Dict(<<K("symbol", symbol)>>)
        IN  _make_request("get_earnings", kwargs, Str(<<"EARNINGS">>), kwargs)

\* the tickers, topics, time_from and time_to arguments of get_news_sentiment
TickerArgs == {None, Str(<<"IBM">>)}
TopicArgs == {None, Str(<<"technology">>)}
TimeFromArgs == {None}
TimeToArgs == {None, Str(<<"2", "0", "2", "4", "0", "1", "3", "1", "T", "0", "0", "0", "0">>)}
SortArgs == {Str(<<"LATEST">>)}
LimitArgs == {PyInt(50)}

\* if value: params[name] = value
SetIfTruthy(params, name, value) ==
    IF Truthy(value) THEN DictSet(params, <<name>>, value) ELSE params

get_news_sentiment ==
    \E tickers \in TickerArgs, topics \in TopicArgs, time_from \in TimeFromArgs,
       time_to \in TimeToArgs, sort \in SortArgs, limit \in LimitArgs :
        LET args == Dict(<<K("tickers", tickers), K("topics", topics),
                           K("time_from", time_from), K("time_to", time_to),
                           K("sort", sort), K("limit", limit)>>)
            params == SetIfTruthy(SetIfTruthy(SetIfTruthy(SetIfTruthy(
                          Dict(<<K("sort", sort), K("limit", limit)>>),
                          "tickers", tickers), "topics", topics), "time_from", time_from),
                          "time_to", time_to)
        IN  _make_request("get_news_sentiment", args, Str(<<"NEWS_SENTIMENT">>), params)

get_top_gainers_losers ==
    _make_request("get_top_gainers_losers", Dict(<<>>), Str(<<"TOP_GAINERS_LOSERS">>),
                  Dict(<<>>))

\* the model an operation builds from the payload; "" for the operations
\* that return the payload itself
ResponseModel(op) ==
    CASE op = "get_company_overview" -> "CompanyOverview"
      [] op = "get_income_statement" -> "IncomeStatement"
      [] op = "get_balance_sheet" -> "BalanceSheet"
      [] op = "get_cash_flow" -> "CashFlow"
      [] op = "get_earnings" -> "Earnings"
      [] op = "get_news_sentiment" -> "NewsSentimentResponse"
      [] op = "get_top_gainers_losers" -> "TopGainersLosers"
      [] OTHER -> ""

\* a variant of the end of an operation: the model is built from whatever
\* _make_request gave, a payload or an error
FinishAlwaysBuilding(op, outcome) ==
    IF ResponseModel(op) # "" THEN Construct(ResponseModel(op), outcome.value) ELSE outcome

\* a variant of the end of an operation: the outcome of _make_request as it is
FinishRaw(op, outcome) == outcome

\* what the operation does with the outcome of _make_request: an error
\* propagates, a payload is returned as it is or built into the model
Finish(op, outcome) ==
    IF outcome.kind = "return" /\ ResponseModel(op) # ""
    THEN Construct(ResponseModel(op), outcome.value)
    ELSE outcome

--------------------------------------------------------------------------
(* What the transport answers *)

\* {"Meta Data": "Daily Prices", "Symbol": "IBM"}
PAYLOAD_TEXT ==
    <<"{", QUOTE, "Meta Data", QUOTE, ":", QUOTE, "Daily Prices", QUOTE, ",", QUOTE, "Symbol",
      QUOTE, ":", QUOTE, "IBM", QUOTE, "}">>

\* {"Error Message": "Invalid API call"}
ERROR_TEXT ==
    <<"{", QUOTE, "Error Message", QUOTE, ":", QUOTE, "Invalid", " ", "API", " ", "call",
      QUOTE, "}">>

\* {"Note": "Thank you for using Alpha Vantage! Our standard API call frequency is 5 calls per
\*   minute."}
RATE_NOTE_TEXT ==
    <<"{", QUOTE, "Note", QUOTE, ":", QUOTE, "Thank", " ", "you", " ", "for", " ", "using",
      " ", "Alpha", " ", "Vantage!", " ", "Our", " ", "standard", " ", "API", " ", "call", " ",
      "frequency", " ", "is", " ", "5", " ", "calls", " ", "per", " ", "minute.", QUOTE, "}">>

\* {"Note": "some other note", "Symbol": "IBM"}
OTHER_NOTE_TEXT ==
    <<"{", QUOTE, "Note", QUOTE, ":", QUOTE, "some other note", QUOTE, ",", QUOTE, "Symbol",
      QUOTE, ":", QUOTE, "IBM", QUOTE, "}">>

\* {"Note": "API frequency call"}
NEAR_NOTE_TEXT ==
    <<"{", QUOTE, "Note", QUOTE, ":", QUOTE, "API", " ", "frequency", " ", "call", QUOTE, "}">>

\* {"Error Message": "Invalid API call", "Note": "API call frequency"}
ERROR_AND_NOTE_TEXT ==
    <<"{", QUOTE, "Error Message", QUOTE, ":", QUOTE, "Invalid", " ", "API", " ", "call",
      QUOTE, ",", QUOTE, "Note", QUOTE, ":", QUOTE, "API", " ", "call", " ", "frequency",
      QUOTE, "}">>

\* a body that is no JSON
GARBAGE_TEXT ==
    <<"<html>", "Service Unavailable", "</html>">>

\* {"Symbol": "IBM", "AssetType": "Common Stock", "Name": "IBM Corp", "Description": "None",
\*   "CIK": "51143", "Exchange": "NYSE", "Currency": "USD", "Country": "USA", "Sector":
\*   "TECHNOLOGY", "Industry": "COMPUTERS", "Address": "ARMONK", "FiscalYearEnd": "December",
\*   "LatestQuarter": "2023-12-31", "MarketCapitalization": "150000", "PERatio": "None", "EPS":
\*   "8.15", "DividendDate": "2024-03-09", "ExDividendDate": "None"}
OVERVIEW_TEXT ==
    <<"{", QUOTE, "Symbol", QUOTE, ":", QUOTE, "IBM", QUOTE, ",", QUOTE, "AssetType", QUOTE,
      ":", QUOTE, "Common Stock", QUOTE, ",", QUOTE, "Name", QUOTE, ":", QUOTE, "IBM Corp",
      QUOTE, ",", QUOTE, "Description", QUOTE, ":", QUOTE, "None", QUOTE, ",", QUOTE, "CIK",
      QUOTE, ":", QUOTE, "5", "1", "1", "4", "3", QUOTE, ",", QUOTE, "Exchange", QUOTE, ":",
      QUOTE, "NYSE", QUOTE, ",", QUOTE, "Currency", QUOTE, ":", QUOTE, "USD", QUOTE, ",",
      QUOTE, "Country", QUOTE, ":", QUOTE, "USA", QUOTE, ",", QUOTE, "Sector", QUOTE, ":",
      QUOTE, "TECHNOLOGY", QUOTE, ",", QUOTE, "Industry", QUOTE, ":", QUOTE, "COMPUTERS",
      QUOTE, ",", QUOTE, "Address", QUOTE, ":", QUOTE, "ARMONK", QUOTE, ",", QUOTE,
      "FiscalYearEnd", QUOTE, ":", QUOTE, "December", QUOTE, ",", QUOTE, "LatestQuarter",
      QUOTE, ":", QUOTE, "2", "0", "2", "3", "-", "1", "2", "-", "3", "1", QUOTE, ",", QUOTE,
      "MarketCapitalization", QUOTE, ":", QUOTE, "1", "5", "0", "0", "0", "0", QUOTE, ",",
      QUOTE, "PERatio", QUOTE, ":", QUOTE, "None", QUOTE, ",", QUOTE, "EPS", QUOTE, ":", QUOTE,
      "8", ".", "1", "5", QUOTE, ",", QUOTE, "DividendDate", QUOTE, ":", QUOTE, "2", "0", "2",
      "4", "-", "0", "3", "-", "0", "9", QUOTE, ",", QUOTE, "ExDividendDate", QUOTE, ":",
      QUOTE, "None", QUOTE, "}">>

\* {"symbol": "IBM", "annualReports": [{"fiscalDateEnding": "2023-12-31", "reportedCurrency":
\*   "USD", "netIncome": "7502", "ebit": "None"}], "quarterlyReports": []}
STATEMENT_TEXT ==
    <<"{", QUOTE, "symbol", QUOTE, ":", QUOTE, "IBM", QUOTE, ",", QUOTE, "annualReports",
      QUOTE, ":", "[", "{", QUOTE, "fiscalDateEnding", QUOTE, ":", QUOTE, "2", "0", "2", "3",
      "-", "1", "2", "-", "3", "1", QUOTE, ",", QUOTE, "reportedCurrency", QUOTE, ":", QUOTE,
      "USD", QUOTE, ",", QUOTE, "netIncome", QUOTE, ":", QUOTE, "7", "5", "0", "2", QUOTE, ",",
      QUOTE, "ebit", QUOTE, ":", QUOTE, "None", QUOTE, "}", "]", ",", QUOTE,
      "quarterlyReports", QUOTE, ":", "[", "]", "}">>

\* {"symbol": "IBM", "annualReports": [{"fiscalDateEnding": "2023-12-31", "reportedCurrency":
\*   "USD", "netIncome": "7502", "ebit": "None"}, {"reportedCurrency": "USD", "netIncome":
\*   "n/a"}], "quarterlyReports": []}
STATEMENT_BAD_TEXT ==
    <<"{", QUOTE, "symbol", QUOTE, ":", QUOTE, "IBM", QUOTE, ",", QUOTE, "annualReports",
      QUOTE, ":", "[", "{", QUOTE, "fiscalDateEnding", QUOTE, ":", QUOTE, "2", "0", "2", "3",
      "-", "1", "2", "-", "3", "1", QUOTE, ",", QUOTE, "reportedCurrency", QUOTE, ":", QUOTE,
      "USD", QUOTE, ",", QUOTE, "netIncome", QUOTE, ":", QUOTE, "7", "5", "0", "2", QUOTE, ",",
      QUOTE, "ebit", QUOTE, ":", QUOTE, "None", QUOTE, "}", ",", "{", QUOTE,
      "reportedCurrency", QUOTE, ":", QUOTE, "USD", QUOTE, ",", QUOTE, "netIncome", QUOTE, ":",
      QUOTE, "n/a", QUOTE, "}", "]", ",", QUOTE, "quarterlyReports", QUOTE, ":", "[", "]", "}">>

\* {"symbol": "IBM", "annualEarnings": [{"fiscalDateEnding": "2023-12-31", "reportedEPS":
\*   "9.61"}], "quarterlyEarnings": [{"fiscalDateEnding": "2023-12-31", "reportedDate":
\*   "2024-01-24", "reportedEPS": "3.87", "estimatedEPS": "3.78", "surprise": "0.09",
\*   "surprisePercentage": "2.381", "reportTime": "None"}]}
EARNINGS_TEXT ==
    <<"{", QUOTE, "symbol", QUOTE, ":", QUOTE, "IBM", QUOTE, ",", QUOTE, "annualEarnings",
      QUOTE, ":", "[", "{", QUOTE, "fiscalDateEnding", QUOTE, ":", QUOTE, "2", "0", "2", "3",
      "-", "1", "2", "-", "3", "1", QUOTE, ",", QUOTE, "reportedEPS", QUOTE, ":", QUOTE, "9",
      ".", "6", "1", QUOTE, "}", "]", ",", QUOTE, "quarterlyEarnings", QUOTE, ":", "[", "{",
      QUOTE, "fiscalDateEnding", QUOTE, ":", QUOTE, "2", "0", "2", "3", "-", "1", "2", "-",
      "3", "1", QUOTE, ",", QUOTE, "reportedDate", QUOTE, ":", QUOTE, "2", "0", "2", "4", "-",
      "0", "1", "-", "2", "4", QUOTE, ",", QUOTE, "reportedEPS", QUOTE, ":", QUOTE, "3", ".",
      "8", "7", QUOTE, ",", QUOTE, "estimatedEPS", QUOTE, ":", QUOTE, "3", ".", "7", "8",
      QUOTE, ",", QUOTE, "surprise", QUOTE, ":", QUOTE, "0", ".", "0", "9", QUOTE, ",", QUOTE,
      "surprisePercentage", QUOTE, ":", QUOTE, "2", ".", "3", "8", "1", QUOTE, ",", QUOTE,
      "reportTime", QUOTE, ":", QUOTE, "None", QUOTE, "}", "]", "}">>

\* {"symbol": "IBM", "annualEarnings": [{"reportedEPS": "9.61"}], "quarterlyEarnings": []}
EARNINGS_BAD_TEXT ==
    <<"{", QUOTE, "symbol", QUOTE, ":", QUOTE, "IBM", QUOTE, ",", QUOTE, "annualEarnings",
      QUOTE, ":", "[", "{", QUOTE, "reportedEPS", QUOTE, ":", QUOTE, "9", ".", "6", "1", QUOTE,
      "}", "]", ",", QUOTE, "quarterlyEarnings", QUOTE, ":", "[", "]", "}">>

\* {"items": "1", "sentiment_score_definition": "x <= -0.35: Bearish",
\*   "relevance_score_definition": "0 < x <= 1", "feed": [{"title": "T", "url":
\*   "https://example.com/a", "time_published": "20240115T093000", "authors": ["A. Writer"],
\*   "summary": "S", "banner_image": "None", "source": "Example", "category_within_source":
\*   "n/a", "source_domain": "example.com", "topics": [{"topic": "Technology",
\*   "relevance_score": "0.5"}], "overall_sentiment_score": 0.25, "overall_sentiment_label":
\*   "Bullish", "ticker_sentiment": [{"ticker": "IBM", "relevance_score": "0.9",
\*   "ticker_sentiment_score": "0.3", "ticker_sentiment_label": "Bullish"}]}]}
NEWS_TEXT ==
    <<"{", QUOTE, "items", QUOTE, ":", QUOTE, "1", QUOTE, ",", QUOTE,
      "sentiment_score_definition", QUOTE, ":", QUOTE, "x <= -0.35: Bearish", QUOTE, ",",
      QUOTE, "relevance_score_definition", QUOTE, ":", QUOTE, "0 < x <= 1", QUOTE, ",", QUOTE,
      "feed", QUOTE, ":", "[", "{", QUOTE, "title", QUOTE, ":", QUOTE, "T", QUOTE, ",", QUOTE,
      "url", QUOTE, ":", QUOTE, "https://example.com/a", QUOTE, ",", QUOTE, "time_published",
      QUOTE, ":", QUOTE, "2", "0", "2", "4", "0", "1", "1", "5", "T", "0", "9", "3", "0", "0",
      "0", QUOTE, ",", QUOTE, "authors", QUOTE, ":", "[", QUOTE, "A. Writer", QUOTE, "]", ",",
      QUOTE, "summary", QUOTE, ":", QUOTE, "S", QUOTE, ",", QUOTE, "banner_image", QUOTE, ":",
      QUOTE, "None", QUOTE, ",", QUOTE, "source", QUOTE, ":", QUOTE, "Example", QUOTE, ",",
      QUOTE, "category_within_source", QUOTE, ":", QUOTE, "n/a", QUOTE, ",", QUOTE,
      "source_domain", QUOTE, ":", QUOTE, "example.com", QUOTE, ",", QUOTE, "topics", QUOTE,
      ":", "[", "{", QUOTE, "topic", QUOTE, ":", QUOTE, "Technology", QUOTE, ",", QUOTE,
      "relevance_score", QUOTE, ":", QUOTE, "0", ".", "5", QUOTE, "}", "]", ",", QUOTE,
      "overall_sentiment_score", QUOTE, ":", "0", ".", "2", "5", ",", QUOTE,
      "overall_sentiment_label", QUOTE, ":", QUOTE, "Bullish", QUOTE, ",", QUOTE,
      "ticker_sentiment", QUOTE, ":", "[", "{", QUOTE, "ticker", QUOTE, ":", QUOTE, "IBM",
      QUOTE, ",", QUOTE, "relevance_score", QUOTE, ":", QUOTE, "0", ".", "9", QUOTE, ",",
      QUOTE, "ticker_sentiment_score", QUOTE, ":", QUOTE, "0", ".", "3", QUOTE, ",", QUOTE,
      "ticker_sentiment_label", QUOTE, ":", QUOTE, "Bullish", QUOTE, "}", "]", "}", "]", "}">>

\* {"items": "1", "sentiment_score_definition": "x <= -0.35: Bearish",
\*   "relevance_score_definition": "0 < x <= 1", "feed": [{"title": "T", "url":
\*   "https://example.com/a", "time_published": "2024-01-15", "authors": ["A. Writer"],
\*   "summary": "S", "banner_image": "None", "source": "Example", "category_within_source":
\*   "n/a", "source_domain": "example.com", "topics": [{"topic": "Technology",
\*   "relevance_score": "0.5"}], "overall_sentiment_score": 0.25, "overall_sentiment_label":
\*   "Bullish", "ticker_sentiment": [{"ticker": "IBM", "relevance_score": "0.9",
\*   "ticker_sentiment_score": "0.3", "ticker_sentiment_label": "Bullish"}]}]}
NEWS_BAD_TEXT ==
    <<"{", QUOTE, "items", QUOTE, ":", QUOTE, "1", QUOTE, ",", QUOTE,
      "sentiment_score_definition", QUOTE, ":", QUOTE, "x <= -0.35: Bearish", QUOTE, ",",
      QUOTE, "relevance_score_definition", QUOTE, ":", QUOTE, "0 < x <= 1", QUOTE, ",", QUOTE,
      "feed", QUOTE, ":", "[", "{", QUOTE, "title", QUOTE, ":", QUOTE, "T", QUOTE, ",", QUOTE,
      "url", QUOTE, ":", QUOTE, "https://example.com/a", QUOTE, ",", QUOTE, "time_published",
      QUOTE, ":", QUOTE, "2", "0", "2", "4", "-", "0", "1", "-", "1", "5", QUOTE, ",", QUOTE,
      "authors", QUOTE, ":", "[", QUOTE, "A. Writer", QUOTE, "]", ",", QUOTE, "summary", QUOTE,
      ":", QUOTE, "S", QUOTE, ",", QUOTE, "banner_image", QUOTE, ":", QUOTE, "None", QUOTE,
      ",", QUOTE, "source", QUOTE, ":", QUOTE, "Example", QUOTE, ",", QUOTE,
      "category_within_source", QUOTE, ":", QUOTE, "n/a", QUOTE, ",", QUOTE, "source_domain",
      QUOTE, ":", QUOTE, "example.com", QUOTE, ",", QUOTE, "topics", QUOTE, ":", "[", "{",
      QUOTE, "topic", QUOTE, ":", QUOTE, "Technology", QUOTE, ",", QUOTE, "relevance_score",
      QUOTE, ":", QUOTE, "0", ".", "5", QUOTE, "}", "]", ",", QUOTE, "overall_sentiment_score",
      QUOTE, ":", "0", ".", "2", "5", ",", QUOTE, "overall_sentiment_label", QUOTE, ":", QUOTE,
      "Bullish", QUOTE, ",", QUOTE, "ticker_sentiment", QUOTE, ":", "[", "{", QUOTE, "ticker",
      QUOTE, ":", QUOTE, "IBM", QUOTE, ",", QUOTE, "relevance_score", QUOTE, ":", QUOTE, "0",
      ".", "9", QUOTE, ",", QUOTE, "ticker_sentiment_score", QUOTE, ":", QUOTE, "0", ".", "3",
      QUOTE, ",", QUOTE, "ticker_sentiment_label", QUOTE, ":", QUOTE, "Bullish", QUOTE, "}",
      "]", "}", "]", "}">>

\* {"metadata": "Top gainers, losers, and most actively traded US tickers", "last_updated":
\*   "2024-01-15 16:15:59 US/Eastern", "top_gainers": [{"ticker": "XYZ", "change_percentage":
\*   "12.50%", "price": "10.0", "volume": "1000000"}], "top_losers": [{"ticker": "ABC",
\*   "price": "1.5", "change_amount": "-0.05", "change_percentage": "-3.25%", "volume":
\*   "None"}], "most_actively_traded": []}
MOVERS_TEXT ==
    <<"{", QUOTE, "metadata", QUOTE, ":", QUOTE,
      "Top gainers, losers, and most actively traded US tickers", QUOTE, ",", QUOTE,
      "last_updated", QUOTE, ":", QUOTE, "2024-01-15 16:15:59 US/Eastern", QUOTE, ",", QUOTE,
      "top_gainers", QUOTE, ":", "[", "{", QUOTE, "ticker", QUOTE, ":", QUOTE, "XYZ", QUOTE,
      ",", QUOTE, "change_percentage", QUOTE, ":", QUOTE, "1", "2", ".", "5", "0", "%", QUOTE,
      ",", QUOTE, "price", QUOTE, ":", QUOTE, "1", "0", ".", "0", QUOTE, ",", QUOTE, "volume",
      QUOTE, ":", QUOTE, "1", "0", "0", "0", "0", "0", "0", QUOTE, "}", "]", ",", QUOTE,
      "top_losers", QUOTE, ":", "[", "{", QUOTE, "ticker", QUOTE, ":", QUOTE, "ABC", QUOTE,
      ",", QUOTE, "price", QUOTE, ":", QUOTE, "1", ".", "5", QUOTE, ",", QUOTE,
      "change_amount", QUOTE, ":", QUOTE, "-", "0", ".", "0", "5", QUOTE, ",", QUOTE,
      "change_percentage", QUOTE, ":", QUOTE, "-", "3", ".", "2", "5", "%", QUOTE, ",", QUOTE,
      "volume", QUOTE, ":", QUOTE, "None", QUOTE, "}", "]", ",", QUOTE, "most_actively_traded",
      QUOTE, ":", "[", "]", "}">>

\* {"metadata": "Top gainers, losers, and most actively traded US tickers", "last_updated":
\*   "2024-01-15 16:15:59 US/Eastern", "top_gainers": [{"ticker": "XYZ", "change_percentage":
\*   "12.50%", "price": "10.0", "volume": "1000000"}, {"ticker": "BAD", "change_percentage":
\*   "abc"}], "top_losers": [], "most_actively_traded": []}
MOVERS_BAD_TEXT ==
    <<"{", QUOTE, "metadata", QUOTE, ":", QUOTE,
      "Top gainers, losers, and most actively traded US tickers", QUOTE, ",", QUOTE,
      "last_updated", QUOTE, ":", QUOTE, "2024-01-15 16:15:59 US/Eastern", QUOTE, ",", QUOTE,
      "top_gainers", QUOTE, ":", "[", "{", QUOTE, "ticker", QUOTE, ":", QUOTE, "XYZ", QUOTE,
      ",", QUOTE, "change_percentage", QUOTE, ":", QUOTE, "1", "2", ".", "5", "0", "%", QUOTE,
      ",", QUOTE, "price", QUOTE, ":", QUOTE, "1", "0", ".", "0", QUOTE, ",", QUOTE, "volume",
      QUOTE, ":", QUOTE, "1", "0", "0", "0", "0", "0", "0", QUOTE, "}", ",", "{", QUOTE,
      "ticker", QUOTE, ":", QUOTE, "BAD", QUOTE, ",", QUOTE, "change_percentage", QUOTE, ":",
      QUOTE, "abc", QUOTE, "}", "]", ",", QUOTE, "top_losers", QUOTE, ":", "[", "]", ",",
      QUOTE, "most_actively_traded", QUOTE, ":", "[", "]", "}">>

\* the answers any request may get
CommonAnswers ==
    {Response(200, PAYLOAD_TEXT), Response(200, ERROR_TEXT), Response(200, RATE_NOTE_TEXT),
     Response(200, OTHER_NOTE_TEXT), Response(200, NEAR_NOTE_TEXT),
     Response(200, ERROR_AND_NOTE_TEXT), Response(200, GARBAGE_TEXT),
     Response(201, PAYLOAD_TEXT), Response(299, RATE_NOTE_TEXT), Response(302, <<>>),
     Response(404, ERROR_TEXT), Response(429, RATE_NOTE_TEXT), Response(503, GARBAGE_TEXT),
     RequestException(<<"Connection refused">>)}

\* the answers to the requests of one operation: the common ones and the
\* payloads of its endpoint
Answers(op) ==
    CommonAnswers \cup
    CASE op = "get_company_overview" -> {Response(200, OVERVIEW_TEXT)}
      [] op \in {"get_income_statement", "get_balance_sheet", "get_cash_flow"} ->
            {Response(200, STATEMENT_TEXT), Response(200, STATEMENT_BAD_TEXT)}
      [] op = "get_earnings" -> {Response(200, EARNINGS_TEXT), Response(200, EARNINGS_BAD_TEXT)}
      [] op = "get_news_sentiment" -> {Response(200, NEWS_TEXT), Response(200, NEWS_BAD_TEXT)}
      [] op = "get_top_gainers_losers" ->
            {Response(200, MOVERS_TEXT), Response(200, MOVERS_BAD_TEXT)}
      [] OTHER -> {}

--------------------------------------------------------------------------
(* AlphaVantageClient._make_request, from the return of session.get on *)

\* a variant of the except clause: except Exception, which also catches the
\* errors raised inside the try block
DispatchCatchesAll(function, answer) ==
    IF answer.kind = "raise"
    THEN RequestFailed(answer.description)
    ELSE IF Classify(function, answer).result.kind = "raise"
    THEN After(Classify(function, answer).logged,
               RequestFailed(ToStr(Classify(function, answer).result.message)))
    ELSE Classify(function, answer)

\* what _make_request does with the transport's answer
Dispatch(function, answer) ==
    IF answer.kind = "raise"
    THEN RequestFailed(answer.description)
    ELSE Classify(function, answer)

\* a variant of the end of a call: a call that fails closes the session
CompleteClosing ==
    \E answer \in Answers(call.op) :
        LET tail == Dispatch(call.function, answer)
        IN  /\ pc = "awaiting"
            /\ reply' = answer
            /\ logged' = logged \o tail.logged
            /\ made' = tail.result
            /\ result' = Finish(call.op, tail.result)
            /\ session' = IF tail.result.kind = "raise" THEN None ELSE session
            /\ pc' = "idle"
            /\ UNCHANGED <<instance, api_key, base_url, calls, call, sent, input, record, again>>

\* session.get returns or raises: _make_request classifies the answer and
\* the operation that called it ends
Complete ==
    \E answer \in Answers(call.op) :
        LET tail == Dispatch(call.function, answer)
        IN  /\ pc = "awaiting"
            /\ reply' = answer
            /\ logged' = logged \o tail.logged
            /\ made' = tail.result
            /\ result' = Finish(call.op, tail.result)
            /\ pc' = "idle"
            /\ UNCHANGED <<instance, api_key, base_url, session, calls, call, sent, input,
                           record, again>>

--------------------------------------------------------------------------
(* The specification *)

NoCall == [op |-> "", function |-> None, args |-> Dict(<<>>)]
NoInput == [cls |-> "", data |-> None]

Init ==
    /\ instance = "absent"
    /\ api_key = None
    /\ base_url = None
    /\ session = None
    /\ calls = 0
    /\ call = NoCall
    /\ reply = NoReply
    /\ sent = <<>>
    /\ logged = <<>>
    /\ made = NoResult
    /\ result = NoResult
    /\ pc = "idle"
    /\ input = NoInput
    /\ record = NoResult
    /\ again = NoResult

Next ==
    \/ __init__
    \/ get_time_series_intraday
    \/ get_time_series_daily
    \/ get_time_series_daily_adjusted
    \/ get_time_series_weekly
    \/ get_time_series_weekly_adjusted
    \/ get_time_series_monthly
    \/ get_time_series_monthly_adjusted
    \/ get_company_overview
    \/ get_income_statement
    \/ get_balance_sheet
    \/ get_cash_flow
    \/ get_earnings
    \/ get_news_sentiment
    \/ get_top_gainers_losers
    \/ get_forex_intraday
    \/ get_forex_daily
    \/ get_forex_weekly
    \/ get_forex_monthly
    \/ get_crypto_intraday
    \/ get_crypto_daily
    \/ get_crypto_weekly
    \/ get_crypto_monthly
    \/ Complete

Spec == Init /\ [][Next]_vars

--------------------------------------------------------------------------
(* The JSON form of a record: BaseModel.model_dump_json *)

RECURSIVE NatChars(_)
\* the decimal digits of a natural number
NatChars(n) == IF n < 10 THEN <<ToString(n)>> ELSE NatChars(n \div 10) \o <<ToString(n % 10)>>

\* the digits of n, with zeros in front up to the width
Padded(n, width) ==
    IF Len(NatChars(n)) >= width THEN NatChars(n)
    ELSE [i \in 1..width |->
             IF i <= width - Len(NatChars(n)) THEN "0"
             ELSE NatChars(n)[i - (width - Len(NatChars(n)))]]

\* an int as JSON
IntChars(n) == IF n < 0 THEN <<"-">> \o NatChars(0 - n) ELSE NatChars(n)

\* the digits of the natural number m with a point before the last e of
\* them; a float without fraction ends in ".0"
PointChars(m, e) ==
    IF e = 0 THEN NatChars(m) \o <<".", "0">>
    ELSE SubSeq(Padded(m, e + 1), 1, Len(Padded(m, e + 1)) - e) \o <<".">>
         \o SubSeq(Padded(m, e + 1), Len(Padded(m, e + 1)) - e + 1, Len(Padded(m, e + 1)))

\* a float as JSON
FloatChars(m, e) == IF m < 0 THEN <<"-">> \o PointChars(0 - m, e) ELSE PointChars(m, e)

\* a datetime as JSON: the ISO 8601 text YYYY-MM-DDTHH:MM:SS
IsoFormat(d) ==
    Padded(d[1], 4) \o <<"-">> \o Padded(d[2], 2) \o <<"-">> \o Padded(d[3], 2) \o <<"T">>
    \o Padded(d[4], 2) \o <<":">> \o Padded(d[5], 2) \o <<":">> \o Padded(d[6], 2)

RECURSIVE Join(_, _, _)
\* the sequences seqs[lo], ..., seqs[hi] joined, half by half
Join(seqs, lo, hi) ==
    IF lo > hi THEN <<>>
    ELSE IF lo = hi THEN seqs[lo]
    ELSE Join(seqs, lo, (lo + hi) \div 2) \o Join(seqs, (lo + hi) \div 2 + 1, hi)

\* the JSON texts in parts, with a comma between two of them
Separated(parts) ==
    Join([i \in 1..Len(parts) |-> IF i > 1 THEN <<",">> \o parts[i] ELSE parts[i]],
         1, Len(parts))

RECURSIVE Dump(_), DumpItems(_), DumpElems(_)
\* the JSON text of a value; a model is an object keyed by its field names
Dump(x) ==
    CASE x.t = "none" -> <<"null">>
      [] x.t = "str" -> <<QUOTE>> \o x.v \o <<QUOTE>>
      [] x.t = "int" -> IntChars(x.v)
      [] x.t = "bool" -> IF x.v THEN <<"true">> ELSE <<"false">>
      [] x.t = "float" -> FloatChars(x.v.m, x.v.e)
      [] x.t = "datetime" -> <<QUOTE>> \o IsoFormat(x.v) \o <<QUOTE>>
      [] x.t = "list" -> <<"[">> \o DumpElems(x.v) \o <<"]">>
      [] x.t = "dict" -> <<"{">> \o DumpItems(x.v) \o <<"}">>
      [] x.t = "model" -> <<"{">> \o DumpItems(x.v.fields) \o <<"}">>
DumpItems(items) ==
    Separated([i \in 1..Len(items) |->
                  <<QUOTE>> \o items[i].k \o <<QUOTE, ":">> \o Dump(items[i].v)])
DumpElems(xs) == Separated([i \in 1..Len(xs) |-> Dump(xs[i])])

\* record.model_dump_json()
model_dump_json(m) == Dump(m)

\* cls(**json.loads(text))
ConstructFromJson(cls, decoded) == IF decoded.ok THEN Construct(cls, decoded.val) ELSE TypeError

--------------------------------------------------------------------------
(* The response models on their own: payloads and their construction *)

Classes ==
    {"CompanyOverview", "IncomeStatementItem", "IncomeStatement", "BalanceSheetItem",
     "BalanceSheet", "CashFlowItem", "CashFlow", "EarningsItem", "Earnings", "NewsSentiment",
     "NewsSentimentResponse", "TopGainerLoser", "TopGainersLosers"}

\* the models that hold a list of other models
ResponseClasses ==
    {"IncomeStatement", "BalanceSheet", "CashFlow", "Earnings", "NewsSentimentResponse",
     "TopGainersLosers"}

\* "20240115T093000"
TIMESTAMP == <<"2", "0", "2", "4", "0", "1", "1", "5", "T", "0", "9", "3", "0", "0", "0">>

\* {"topic": "Technology", "relevance_score": "0.5"}
TOPIC == Dict(<<Item(<<"topic">>, Str(<<"Technology">>)),
                Item(<<"relevance_score">>, Str(<<"0", ".", "5">>))>>)

RECURSIVE Sample(_), Whole(_)
\* a raw value, as the API sends it, that the type of field f accepts
Sample(f) ==
    CASE f.type \in {"str", "optstr"} -> Str(<<"text">>)
      [] f.type = "optfloat" -> Str(<<"1", "2", ".", "5", "0">>)
      [] f.type = "optint" -> Str(<<"4", "2">>)
      [] f.type = "datetime" -> Str(TIMESTAMP)
      [] f.type = "list_str" -> List(<<Str(<<"A. Writer">>)>>)
      [] f.type = "list_dict" -> List(<<TOPIC>>)
      [] f.type = "list_model" -> List(<<Whole(f.item)>>)

\* a payload with every field of cls, each under its alias
Whole(cls) == Dict([i \in 1..Len(Fields(cls)) |-> Item(Fields(cls)[i].alias, Sample(Fields(cls)[i]))])

\* the payload with another value, or another key, at its i-th item, and
\* without its i-th item
WithValue(data, i, val) == Dict([data.v EXCEPT ![i] = Item(data.v[i].k, val)])
Rekeyed(data, i, key) == Dict([data.v EXCEPT ![i] = Item(key, data.v[i].v)])
Without(data, i) == Dict(SubSeq(data.v, 1, i - 1) \o SubSeq(data.v, i + 1, Len(data.v)))

\* the payloads of cls that differ from Whole(cls) in one field: the string
\* "None" as its value, the field left out, the field under its Python name
NonePayloads(cls) == {WithValue(Whole(cls), i, Str(<<"None">>)) : i \in 1..Len(Fields(cls))}
AbsentPayloads(cls) == {Without(Whole(cls), i) : i \in 1..Len(Fields(cls))}
ByNamePayloads(cls) == {Rekeyed(Whole(cls), i, Fields(cls)[i].name) : i \in 1..Len(Fields(cls))}

\* the place of the field of cls with this alias
Place(cls, alias) == CHOOSE i \in 1..Len(Fields(cls)) : Fields(cls)[i].alias = <<alias>>

\* keys that differ from an alias in case only: "grossProfit" of
\* IncomeStatementItem, "EBITDA" of CompanyOverview (whose Python name is
\* "ebitda")
OtherCasePayloads(cls) ==
    CASE cls = "IncomeStatementItem" ->
            {Rekeyed(Whole(cls), Place(cls, "grossProfit"), key) :
                key \in {<<"GrossProfit">>, <<"grossprofit">>, <<"GROSSPROFIT">>}}
      [] cls = "CompanyOverview" ->
            {Rekeyed(Whole(cls), Place(cls, "EBITDA"), key) :
                key \in {<<"Ebitda">>, <<"ebitda">>}}
      [] OTHER -> {}

\* texts of change_percentage
PercentTexts ==
    {<<"-", "3", ".", "2", "5", "%">>, <<"7", "%">>, <<"1", "2", ".", "5", "0", "%">>,
     <<"a", "b", "c">>, <<"%">>, <<>>, <<"5", "%", "%">>, <<"5">>, <<"%", "5">>,
     <<"7", " ", "%">>, <<"1", "2", ".", "5", "0", "%", "x">>}

\* texts of time_published
TimestampTexts ==
    {TIMESTAMP,
     <<"2", "0", "2", "4", "-", "0", "1", "-", "1", "5">>,
     <<"2", "0", "2", "4", "0", "1", "1", "5", "T", "0", "9", "3", "0">>,
     <<"2", "0", "2", "4", "1", "1", "T", "9", "3", "0">>,
     <<"2", "0", "2", "4", "0", "1", "1", "5">>,
     <<"2", "0", "2", "4", "0", "2", "3", "0", "T", "0", "0", "0", "0", "0", "0">>,
     <<"2", "0", "2", "4", "0", "1", "1", "5", "T", "0", "9", "3", "0", "0", "0", "Z">>,
     <<"2", "0", "2", "4", "-", "0", "1", "-", "1", "5", "T", "0", "9", ":", "3", "0", ":",
       "0", "0">>}

\* {"ticker": "XYZ", "change_percentage": "12.50%", "price": "10.0", "volume": "1000000"}
MOVER ==
    Dict(<<Item(<<"ticker">>, Str(<<"XYZ">>)),
           Item(<<"change_percentage">>, Str(<<"1", "2", ".", "5", "0", "%">>)),
           Item(<<"price">>, Str(<<"1", "0", ".", "0">>)),
           Item(<<"volume">>, Str(<<"1", "0", "0", "0", "0", "0", "0">>))>>)

\* the payloads of one of the models that are elements of a list
ElementPayloads(cls) ==
    {Whole(cls)} \cup NonePayloads(cls) \cup AbsentPayloads(cls) \cup ByNamePayloads(cls)
    \cup OtherCasePayloads(cls)
    \cup CASE cls = "TopGainerLoser" ->
                {WithValue(Whole(cls), Place(cls, "change_percentage"), Str(text)) :
                    text \in PercentTexts} \cup {MOVER}
           [] cls = "NewsSentiment" ->
                {WithValue(Whole(cls), Place(cls, "time_published"), Str(text)) :
                    text \in TimestampTexts}
           [] OTHER -> {}

\* the places of the list_model fields of cls
ListPlaces(cls) == {i \in 1..Len(Fields(cls)) : Fields(cls)[i].type = "list_model"}

\* the payloads of a response model: those that differ in one field, and
\* those with a second element, of any kind, in one of the lists
NestedPayloads(cls) ==
    UNION {{WithValue(Whole(cls), i, List(<<Whole(Fields(cls)[i].item), element>>)) :
               element \in ElementPayloads(Fields(cls)[i].item) \cup {Str(<<"text">>)}} :
           i \in ListPlaces(cls)}

Payloads(cls) ==
    IF cls \in ResponseClasses
    THEN {Whole(cls)} \cup NonePayloads(cls) \cup AbsentPayloads(cls) \cup ByNamePayloads(cls)
         \cup NestedPayloads(cls)
    ELSE ElementPayloads(cls)

Inputs == UNION {{[cls |-> cls, data |-> data] : data \in Payloads(cls)} : cls \in Classes}

\* cls(**data)
Validate ==
    /\ pc = "input"
    /\ record' = Construct(input.cls, input.data)
    /\ pc' = "built"
    /\ UNCHANGED <<instance, api_key, base_url, session, calls, call, reply, sent, logged,
                   made, result, input, again>>

\* cls(**json.loads(record.model_dump_json())), for a record that was built
RoundTrip ==
    /\ pc = "built"
    /\ record.kind = "return"
    /\ again' = ConstructFromJson(input.cls, json(model_dump_json(record.value)))
    /\ pc' = "rebuilt"
    /\ UNCHANGED <<instance, api_key, base_url, session, calls, call, reply, sent, logged,
                   made, result, input, record>>

MapperInit ==
    /\ instance = "absent"
    /\ api_key = None
    /\ base_url = None
    /\ session = None
    /\ calls = 0
    /\ call = NoCall
    /\ reply = NoReply
    /\ sent = <<>>
    /\ logged = <<>>
    /\ made = NoResult
    /\ result = NoResult
    /\ pc = "input"
    /\ input \in Inputs
    /\ record = NoResult
    /\ again = NoResult

MapperNext ==
    \/ Validate
    \/ RoundTrip

MapperSpec == MapperInit /\ [][MapperNext]_vars

--------------------------------------------------------------------------
(* Properties: how _make_request classifies a response *)

\* the GET of the last operation has been answered with a response and the
\* operation has ended
Answered == pc = "idle" /\ reply.kind = "response"

\* the JSON value of the body of that response
Body == json(reply.text)

\* the body is a JSON object
BodyIsObject == Body.ok /\ IsDict(Body.val)

\* the body is a JSON object with this key
HasKey(key) == BodyIsObject /\ DictHas(Body.val, key)

\* the values under "Error Message" and under "Note"
ErrorMessageValue == DictGet(Body.val, <<"Error Message">>)
NoteValue == DictGet(Body.val, <<"Note">>)

\* the body has a "Note" whose text contains "API call frequency"
FrequencyNote ==
    /\ HasKey(<<"Note">>)
    /\ IsStr(NoteValue)
    /\ Contains(<<"API", " ", "call", " ", "frequency">>, NoteValue.v)

\* the note went to the log as a warning
NoteWarned ==
    \E i \in 1..Len(logged) :
        logged[i] = [level |-> "WARNING", msg |-> <<"API returned note: ">> \o NoteValue.v]

\* C1: for a response of status 200 whose body has a "Note" (a text) and no
\* "Error Message", _make_request raises RateLimitError carrying the note
\* exactly when the note contains "API call frequency"; for any other note
\* it logs the note as a warning and returns the decoded body unchanged.
C1_RateLimitNote ==
    (/\ Answered
     /\ reply.status_code = 200
     /\ HasKey(<<"Note">>)
     /\ ~HasKey(<<"Error Message">>)
     /\ IsStr(NoteValue))
    => IF FrequencyNote
       THEN made = RateLimitError(NoteValue)
       ELSE made = Return(Body.val) /\ NoteWarned

\* a 200 response with a call-frequency note has ended in RateLimitError
C1_Witness ==
    /\ Answered
    /\ reply.status_code = 200
    /\ ~HasKey(<<"Error Message">>)
    /\ FrequencyNote
    /\ made.exc = "RateLimitError"

\* C2: whenever the body that _make_request decodes (the body of a response
\* of status 200) has the key "Error Message", the operation fails with
\* APIError whose status_code is the status of the response and whose message
\* is the value under "Error Message"; nothing is returned.
C2_ErrorMessage ==
    (Answered /\ reply.status_code = 200 /\ HasKey(<<"Error Message">>))
    => /\ made = APIError(reply.status_code, ErrorMessageValue)
       /\ result = made

\* a 200 response with an "Error Message" has ended in APIError
C2_Witness ==
    /\ Answered
    /\ reply.status_code = 200
    /\ HasKey(<<"Error Message">>)
    /\ result.exc = "APIError"
    /\ result.message = ErrorMessageValue

\* the outcome the body alone calls for: APIError with the "Error Message",
\* RateLimitError with the call-frequency note, or the decoded body
BodyOutcome(status_code) ==
    IF HasKey(<<"Error Message">>) THEN APIError(status_code, ErrorMessageValue)
    ELSE IF FrequencyNote THEN RateLimitError(NoteValue)
    ELSE Return(Body.val)

\* C3 as stated: for every status the transport reports, the body alone
\* decides between APIError with the "Error Message", RateLimitError with the
\* note, and the payload.
C3_Original ==
    (Answered /\ BodyIsObject)
    => /\ made.kind = BodyOutcome(reply.status_code).kind
       /\ made.exc = BodyOutcome(reply.status_code).exc
       /\ made.message = BodyOutcome(reply.status_code).message

\* C3 as amended: the body decides the outcome only when the status is 200;
\* for every other status the outcome is APIError with that status and the
\* raw text of the body, whatever the body contains.
C3_Amended ==
    Answered
    => IF reply.status_code = 200
       THEN BodyIsObject /\ (HasKey(<<"Note">>) => IsStr(NoteValue))
            => made = BodyOutcome(200)
       ELSE made = APIError(reply.status_code, Str(reply.text))

\* a response of another status whose body has a call-frequency note has
\* ended in APIError with the raw text
C3_Witness ==
    /\ Answered
    /\ reply.status_code # 200
    /\ FrequencyNote
    /\ made = APIError(reply.status_code, Str(reply.text))

\* C4: whenever the transport reports a status outside 200..299, the
\* operation fails with APIError whose status_code is that status and whose
\* message is the raw text of the body; the body is not returned.
C4_NonSuccessStatus ==
    (Answered /\ reply.status_code \notin 200..299)
    => /\ made = APIError(reply.status_code, Str(reply.text))
       /\ result = made

\* a response of status 302 has ended in APIError
C4_Witness ==
    /\ Answered
    /\ reply.status_code = 302
    /\ result = APIError(302, Str(reply.text))

\* the body is a JSON object with neither an "Error Message" nor a
\* call-frequency note
CleanBody ==
    /\ BodyIsObject
    /\ ~HasKey(<<"Error Message">>)
    /\ ~FrequencyNote

\* C5 as stated: for any status in 200..299 and a body with neither an
\* "Error Message" nor a call-frequency note, _make_request returns the
\* decoded body.
C5_Original ==
    (Answered /\ reply.status_code \in 200..299 /\ CleanBody)
    => made = Return(Body.val)

\* C5 as amended: for the status 200 and a body (a JSON object) with neither
\* an "Error Message" nor a "Note" that is anything but a text without "API
\* call frequency", _make_request returns the decoded body unchanged.
C5_Amended ==
    (/\ Answered
     /\ reply.status_code = 200
     /\ CleanBody
     /\ HasKey(<<"Note">>) => IsStr(NoteValue))
    => made = Return(Body.val)

\* a 200 response whose body has a note of another kind has been returned
C5_Witness ==
    /\ Answered
    /\ reply.status_code = 200
    /\ CleanBody
    /\ HasKey(<<"Note">>)
    /\ made = Return(Body.val)

--------------------------------------------------------------------------
(* Properties: the credential and the log *)

\* C6: the API key the client holds appears in no record handed to the log
\* handler, whatever the operation and its outcome.
C6_KeyNeverLogged ==
    instance = "live"
    => \A i \in 1..Len(logged) : ~Contains(api_key.v, logged[i].msg)

--------------------------------------------------------------------------
(* Properties: local validation, the requests sent, construction *)

IntradayOps == {"get_time_series_intraday", "get_forex_intraday", "get_crypto_intraday"}

AllowedIntervals ==
    {Str(<<"1min">>), Str(<<"5min">>), Str(<<"15min">>), Str(<<"30min">>), Str(<<"60min">>)}

\* the interval argument of the last operation
IntervalArg == DictGet(call.args, <<"interval">>)

\* C7: in the three intraday operations an interval outside {1min, 5min,
\* 15min, 30min, 60min} ends the call with InvalidParameterError and no GET
\* is sent for that call; an interval of the set never raises
\* InvalidParameterError.
C7_IntervalValidated ==
    call.op \in IntradayOps
    => IF IntervalArg \in AllowedIntervals
       THEN result.exc # "InvalidParameterError"
       ELSE /\ pc = "idle"
            /\ result.kind = "raise"
            /\ result.exc = "InvalidParameterError"
            /\ sent = <<>>
            /\ reply = NoReply

\* an intraday call with the interval "2min" has ended in
\* InvalidParameterError without a GET
C7_Witness ==
    /\ call.op \in IntradayOps
    /\ IntervalArg = Str(<<"2min">>)
    /\ result.exc = "InvalidParameterError"
    /\ sent = <<>>

\* C8: an operation hands at most one GET to the transport per call, and
\* once the GET is out the next step ends the call (with the payload or with
\* the error) without sending anything more: there are no retries.
C8_NoRetries ==
    [][/\ Len(sent') <= 1
       /\ pc = "awaiting" => (sent' = sent /\ pc' = "idle" /\ result'.kind # "none")]_vars

\* a call whose GET failed in the transport has ended in an error after one
\* GET
C8_Witness ==
    /\ pc = "idle"
    /\ reply.kind = "raise"
    /\ result.kind = "raise"
    /\ Len(sent) = 1

\* the places of a key among the items of a dict
Places(d, key) == {j \in 1..Len(d.v) : d.v[j].k = key}

\* a request carries the arguments of the operation that are non-empty texts
CarriesArgs(params) ==
    \A j \in 1..Len(call.args.v) :
        LET arg == call.args.v[j]
        IN  (IsStr(arg.v) /\ arg.v.v # <<>>)
            => DictHas(params, arg.k) /\ DictGet(params, arg.k) = arg.v

\* C9: every GET an operation sends carries "function", equal to the
\* endpoint identifier of the operation, and "apikey", equal to the key the
\* client holds since its construction, each once, next to the parameters of
\* the endpoint.
C9_ImplicitParams ==
    \A i \in 1..Len(sent) :
        /\ Cardinality(Places(sent[i].params, <<"function">>)) = 1
        /\ Cardinality(Places(sent[i].params, <<"apikey">>)) = 1
        /\ IsStr(call.function)
        /\ DictGet(sent[i].params, <<"function">>) = call.function
        /\ DictGet(sent[i].params, <<"apikey">>) = api_key
        /\ CarriesArgs(sent[i].params)

\* get_news_sentiment has sent a GET with its parameters, the identifier
\* NEWS_SENTIMENT and the key
C9_Witness ==
    /\ pc = "awaiting"
    /\ call.op = "get_news_sentiment"
    /\ Len(sent) = 1
    /\ DictHas(sent[1].params, <<"tickers">>)
    /\ DictGet(sent[1].params, <<"function">>) = Str(<<"NEWS_SENTIMENT">>)
    /\ DictGet(sent[1].params, <<"apikey">>) = Str(<<"ENVKEY">>)

\* no key is available to the construction: the api_key argument is None or
\* empty, and so is the value of ALPHA_VANTAGE_API_KEY
NoKeyAvailable ==
    /\ DictGet(call.args, <<"api_key">>) \in {None, Str(<<>>)}
    /\ getenv(DictGet(call.args, <<"environ">>), DictGet(call.args, <<"dotenv">>))
           \in {None, Str(<<>>)}

\* C10: a construction with no key available fails with APIKeyError and
\* leaves no client; without a client no request is sent; a client that
\* exists holds a key that is a non-empty text.
C10_KeyRequired ==
    /\ call.op = "__init__"
       => IF NoKeyAvailable
          THEN result.exc = "APIKeyError" /\ instance = "absent"
          ELSE result = Return(None) /\ instance = "live"
    /\ instance = "absent" => sent = <<>> /\ calls = 0 /\ pc = "idle"
    /\ instance = "live" => IsStr(api_key) /\ api_key.v # <<>>

\* a construction with an empty argument and an empty environment value has
\* failed with APIKeyError
C10_Witness ==
    /\ call.op = "__init__"
    /\ DictGet(call.args, <<"api_key">>) = Str(<<>>)
    /\ DictGet(call.args, <<"environ">>) = Str(<<>>)
    /\ result.exc = "APIKeyError"
    /\ instance = "absent"

--------------------------------------------------------------------------
(* Properties: failures of the transport *)

\* C11: when session.get raises a RequestException the operation fails with
\* APIError of status 500 whose message contains the description of the
\* failure; the errors _make_request has raised itself (APIError for a status
\* or an "Error Message", RateLimitError) keep their type and their status.
C11_NetworkFailure ==
    pc = "idle"
    => /\ reply.kind = "raise"
          => /\ made.exc = "APIError"
             /\ made.status_code = 500
             /\ Contains(reply.description, made.message.v)
             /\ result = made
       /\ (reply.kind = "response" /\ reply.status_code # 200)
          => result = APIError(reply.status_code, Str(reply.text))
       /\ (reply.kind = "response" /\ reply.status_code = 200 /\ HasKey(<<"Error Message">>))
          => result.exc = "APIError" /\ result.status_code = 200
       /\ (/\ reply.kind = "response"
           /\ reply.status_code = 200
           /\ ~HasKey(<<"Error Message">>)
           /\ FrequencyNote)
          => result = RateLimitError(NoteValue)

\* a GET that failed in the transport has ended in APIError of status 500
C11_Witness ==
    /\ pc = "idle"
    /\ reply.kind = "raise"
    /\ reply.description # <<>>
    /\ result = APIError(500, Str(<<"Request failed: ">> \o reply.description))

--------------------------------------------------------------------------
(* Properties: the construction of the response models *)

\* the construction of the model from the payload has ended
Built == pc \in {"built", "rebuilt"}

\* the fields of the model under construction
InputFields == Fields(input.cls)

\* the value of a field of a record
FieldOf(m, name) == m.v.fields[CHOOSE i \in 1..Len(m.v.fields) : m.v.fields[i].k = name].v

\* the construction raised a ValidationError with an error of this type at
\* this location
HasError(outcome, loc, type) ==
    /\ outcome.kind = "raise"
    /\ outcome.exc = "ValidationError"
    /\ \E i \in 1..Len(outcome.message.v.errors) :
          outcome.message.v.errors[i] = [loc |-> loc, type |-> type]

\* the payload holds the string "None" under the alias of field f
RawIsNoneString(data, f) == DictHas(data, f.alias) /\ DictGet(data, f.alias) = Str(<<"None">>)

\* C12: for every field of every model, required or optional, a raw value
\* that is the string "None" gives a record whose field is None.
C12_NoneStringIsNull ==
    Built
    => \A i \in 1..Len(InputFields) :
          RawIsNoneString(input.data, InputFields[i])
          => /\ record.kind = "return"
             /\ FieldOf(record.value, InputFields[i].name) = None

\* the models with optional numeric fields
ItemClasses ==
    {"CompanyOverview", "IncomeStatementItem", "BalanceSheetItem", "CashFlowItem",
     "EarningsItem", "NewsSentiment", "TopGainerLoser"}

\* C13: in the seven models with optional numeric fields, a raw value that
\* is the string "None" in such a field gives None in the record, and the
\* record is produced; so for change_percentage, where "None" is made None
\* before parse_percentage sees it.
C13_OptionalNumericNone ==
    (Built /\ input.cls \in ItemClasses)
    => \A i \in 1..Len(InputFields) :
          (/\ InputFields[i].type \in {"optfloat", "optint"}
           /\ RawIsNoneString(input.data, InputFields[i]))
          => /\ record.kind = "return"
             /\ FieldOf(record.value, InputFields[i].name) = None

\* a TopGainerLoser whose change_percentage is "None" has been built with
\* None in that field
C13_Witness ==
    /\ Built
    /\ input.cls = "TopGainerLoser"
    /\ DictHas(input.data, <<"change_percentage">>)
    /\ DictGet(input.data, <<"change_percentage">>) = Str(<<"None">>)
    /\ record.kind = "return"
    /\ FieldOf(record.value, <<"change_percentage">>) = None

\* the payload has field f under neither its alias nor its Python name
Lacks(data, f) == ~DictHas(data, f.alias) /\ ~DictHas(data, f.name)

\* every required field of cls that the dict data lacks is reported missing
\* at its alias, under the location `at`
MissingReported(cls, data, at) ==
    \A i \in 1..Len(Fields(cls)) :
        (Fields(cls)[i].required /\ Lacks(data, Fields(cls)[i]))
        => HasError(record, at \o <<Str(Fields(cls)[i].alias)>>, "missing")

\* C14 as stated: a required field whose alias is not a key of the payload
\* makes the construction fail with a ValidationError that names the field.
C14_Original ==
    Built
    => \A i \in 1..Len(InputFields) :
          (InputFields[i].required /\ ~DictHas(input.data, InputFields[i].alias))
          => HasError(record, <<Str(InputFields[i].alias)>>, "missing")

\* C14 as amended: a required field that the payload holds under neither its
\* alias nor its Python name makes the construction fail with a
\* ValidationError that names the field, in the model and in the elements of
\* its lists; no record is returned for such a payload.
C14_Amended ==
    Built
    => /\ MissingReported(input.cls, input.data, <<>>)
       /\ \A i \in ListPlaces(input.cls) :
             (/\ DictHas(input.data, InputFields[i].alias)
              /\ DictGet(input.data, InputFields[i].alias).t = "list")
             => \A j \in 1..Len(DictGet(input.data, InputFields[i].alias).v) :
                   IsDict(DictGet(input.data, InputFields[i].alias).v[j])
                   => MissingReported(InputFields[i].item,
                                      DictGet(input.data, InputFields[i].alias).v[j],
                                      <<Str(InputFields[i].alias), PyInt(j - 1)>>)

\* an IncomeStatement whose second annual report lacks fiscalDateEnding has
\* failed with an error that names it
C14_Witness ==
    /\ Built
    /\ input.cls = "IncomeStatement"
    /\ HasError(record, <<Str(<<"annualReports">>), PyInt(1), Str(<<"fiscalDateEnding">>)>>,
                "missing")

\* the raw change_percentage of a TopGainerLoser payload is this text
PercentageIs(text) ==
    /\ Built
    /\ input.cls = "TopGainerLoser"
    /\ DictHas(input.data, <<"change_percentage">>)
    /\ DictGet(input.data, <<"change_percentage">>) = Str(text)

\* the texts in `values` (pairs of a text and a float) give their float in
\* change_percentage, the texts in `failures` a validation error there
PercentagesGive(values, failures) ==
    /\ \A c \in values :
          PercentageIs(c[1])
          => record.kind = "return" /\ FieldOf(record.value, <<"change_percentage">>) = c[2]
    /\ \A text \in failures :
          PercentageIs(text)
          => HasError(record, <<Str(<<"change_percentage">>)>>, "value_error")

\* "-3.25%" is -3.25, "7%" is 7.0, "12.50%" is 12.5, "5" is 5.0, "7 %" is 7.0
PercentValues ==
    {<<(<<"-", "3", ".", "2", "5", "%">>), Float(0 - 325, 2)>>,
     <<(<<"7", "%">>), Float(7, 0)>>,
     <<(<<"1", "2", ".", "5", "0", "%">>), Float(125, 1)>>,
     <<(<<"5">>), Float(5, 0)>>,
     <<(<<"7", " ", "%">>), Float(7, 0)>>}

\* "abc", "%", "", "%5", "12.50%x"
PercentFailures ==
    {<<"a", "b", "c">>, <<"%">>, <<>>, <<"%", "5">>, <<"1", "2", ".", "5", "0", "%", "x">>}

\* C15 as stated: one trailing "%" is removed from a string and the rest is
\* parsed as a float; "5%%", whose rest "5%" is no number, fails like "abc",
\* "%" and "".
C15_Original ==
    PercentagesGive(PercentValues, PercentFailures \cup {<<"5", "%", "%">>})

\* C15 as amended: every trailing "%" is removed from a string and the rest
\* is parsed as a float; "5%%" gives 5.0, and "abc", "%" and "" fail, their
\* rest being no number.
C15_Amended ==
    PercentagesGive(PercentValues \cup {<<(<<"5", "%", "%">>), Float(5, 0)>>}, PercentFailures)

\* a change_percentage of "-3.25%" has given -3.25
C15_Witness ==
    /\ PercentageIs(<<"-", "3", ".", "2", "5", "%">>)
    /\ record.kind = "return"
    /\ FieldOf(record.value, <<"change_percentage">>) = Float(0 - 325, 2)

\* the layout YYYYMMDD'T'HHMMSS: 15 characters, digits but for the "T"
HasTimestampLayout(s) ==
    /\ Len(s) = 15
    /\ s[9] = "T"
    /\ \A i \in (1..15) \ {9} : s[i] \in Digits

\* the raw time_published of a NewsSentiment payload
RawTimePublished == DictGet(input.data, <<"time_published">>)

\* the construction found fault with time_published
TimePublishedRefused ==
    /\ record.kind = "raise"
    /\ \E i \in 1..Len(record.message.v.errors) :
          record.message.v.errors[i].loc = <<Str(<<"time_published">>)>>

\* C16: time_published is accepted only as a string of 15 characters in the
\* layout YYYYMMDD'T'HHMMSS, "20240115T093000" being 2024-01-15 09:30:00;
\* a raw value of any other shape is a validation failure.
C16_TimestampLayout ==
    (Built /\ input.cls = "NewsSentiment" /\ DictHas(input.data, <<"time_published">>))
    => /\ RawTimePublished = Str(TIMESTAMP)
          => /\ ~TimePublishedRefused
             /\ record.kind = "return"
                => FieldOf(record.value, <<"time_published">>)
                       = Datetime(2024, 1, 15, 9, 30, 0)
       /\ ~(IsStr(RawTimePublished) /\ HasTimestampLayout(RawTimePublished.v))
          => TimePublishedRefused

\* C17 as stated: an optional field whose alias is not a key of the payload
\* is None in the record, whatever other keys the payload has.
C17_Original ==
    (Built /\ record.kind = "return")
    => \A i \in 1..Len(InputFields) :
          (~InputFields[i].required /\ ~DictHas(input.data, InputFields[i].alias))
          => FieldOf(record.value, InputFields[i].name) = None

\* C17 as amended: a field is looked up under its alias and, failing that,
\* under its Python name, both compared exactly; an optional field that the
\* payload holds under neither is None in the record, whatever other keys the
\* payload has, and one that it holds under its Python name only takes its
\* value from there.
C17_Amended ==
    (Built /\ record.kind = "return")
    => \A i \in 1..Len(InputFields) :
          ~InputFields[i].required
          => /\ Lacks(input.data, InputFields[i])
                => FieldOf(record.value, InputFields[i].name) = None
             /\ (/\ ~DictHas(input.data, InputFields[i].alias)
                 /\ DictHas(input.data, InputFields[i].name)
                 /\ DictGet(input.data, InputFields[i].name) \notin {None, Str(<<"None">>)})
                => FieldOf(record.value, InputFields[i].name) # None

\* an IncomeStatementItem with "GrossProfit" for "grossProfit" has been built
\* with None in gross_profit
C17_Witness ==
    /\ Built
    /\ input.cls = "IncomeStatementItem"
    /\ DictHas(input.data, <<"GrossProfit">>)
    /\ ~DictHas(input.data, <<"grossProfit">>)
    /\ record.kind = "return"
    /\ FieldOf(record.value, <<"gross_profit">>) = None

\* the payload holds a list under the alias or the name of field f
HoldsList(data, f) ==
    \/ DictHas(data, f.alias) /\ DictGet(data, f.alias).t = "list"
    \/ ~DictHas(data, f.alias) /\ DictHas(data, f.name) /\ DictGet(data, f.name).t = "list"

\* the elements of that list
RawElements(data, f) ==
    IF DictHas(data, f.alias) THEN DictGet(data, f.alias).v ELSE DictGet(data, f.name).v

\* C18: if an element of a list of records fails validation, the
\* construction of the record that holds the list fails; a record that is
\* returned holds, for every raw element and in order, the record built from
\* it: none is left out and none is partly filled.
C18_NestedFailureAborts ==
    (Built /\ input.cls \in ResponseClasses)
    => \A i \in ListPlaces(input.cls) :
          HoldsList(input.data, InputFields[i])
          => /\ (\E j \in 1..Len(RawElements(input.data, InputFields[i])) :
                    Construct(InputFields[i].item,
                              RawElements(input.data, InputFields[i])[j]).kind # "return")
                => record.kind = "raise" /\ record.exc = "ValidationError"
             /\ record.kind = "return"
                => /\ Len(FieldOf(record.value, InputFields[i].name).v)
                          = Len(RawElements(input.data, InputFields[i]))
                   /\ \A j \in 1..Len(RawElements(input.data, InputFields[i])) :
                         Return(FieldOf(record.value, InputFields[i].name).v[j])
                             = Construct(InputFields[i].item,
                                         RawElements(input.data, InputFields[i])[j])

\* a TopGainersLosers whose second gainer has the change_percentage "abc" has
\* failed with an error located in that element
C18_Witness ==
    /\ Built
    /\ input.cls = "TopGainersLosers"
    /\ HasError(record, <<Str(<<"top_gainers">>), PyInt(1), Str(<<"change_percentage">>)>>,
                "value_error")

\* C19: for every model and every payload from which a record is built, the
\* JSON form of the record builds a record again, equal to the first field
\* for field, also when it holds a parsed time_published or change_percentage.
C19_RoundTrip == pc = "rebuilt" => again = record

\* "12.50" is 12.5 and "10.0" is 10.0
FloatValues == {<<(<<"1", "2", ".", "5", "0">>), Float(125, 1)>>,
                <<(<<"1", "0", ".", "0">>), Float(10, 0)>>}

\* "42" is 42 and "1000000" is 1000000
IntValues == {<<(<<"4", "2">>), PyInt(42)>>,
              <<(<<"1", "0", "0", "0", "0", "0", "0">>), PyInt(1000000)>>}

\* the raw value under this key is the string with this text
RawText(data, key, text) == DictHas(data, key) /\ DictGet(data, key) = Str(text)

\* the TopGainerLoser m holds what the strings of the raw element say
MoverMapped(data, m) ==
    /\ \A key \in {<<"price">>, <<"change_amount">>, <<"change_percentage">>} :
          \A p \in FloatValues : RawText(data, key, p[1]) => FieldOf(m, key) = p[2]
    /\ \A p \in PercentValues :
          RawText(data, <<"change_percentage">>, p[1])
          => FieldOf(m, <<"change_percentage">>) = p[2]
    /\ \A p \in IntValues :
          RawText(data, <<"volume">>, p[1]) => FieldOf(m, <<"volume">>) = p[2]
    /\ (/\ DictHas(data, <<"ticker">>)
        /\ IsStr(DictGet(data, <<"ticker">>))
        /\ DictGet(data, <<"ticker">>) # Str(<<"None">>))
       => FieldOf(m, <<"ticker">>) = DictGet(data, <<"ticker">>)
    /\ ~DictHas(data, <<"change_amount">>) => FieldOf(m, <<"change_amount">>) = None

\* C20: a movers element whose raw fields are strings is built with numbers:
\* change_percentage is the float of the string without its percent sign
\* ("12.50%" is 12.5), price is a float ("10.0" is 10.0), volume is an int
\* ("1000000" is 1000000), the ticker is the string as it came, and
\* change_amount is None when absent; so for an element on its own and for the
\* elements of the lists of TopGainersLosers.
C20_MoverFields ==
    /\ (Built /\ input.cls = "TopGainerLoser")
       => /\ input.data = MOVER => record.kind = "return"
          /\ record.kind = "return" => MoverMapped(input.data, record.value)
    /\ (Built /\ input.cls = "TopGainersLosers" /\ record.kind = "return")
       => \A i \in ListPlaces(input.cls) :
             HoldsList(input.data, InputFields[i])
             => \A j \in 1..Len(RawElements(input.data, InputFields[i])) :
                   MoverMapped(RawElements(input.data, InputFields[i])[j],
                               FieldOf(record.value, InputFields[i].name).v[j])

\* the element {"ticker": "XYZ", "change_percentage": "12.50%", "price":
\* "10.0", "volume": "1000000"} has been built with 12.5, 10.0, 1000000, "XYZ"
\* and no change_amount
C20_Witness ==
    /\ Built
    /\ input.cls = "TopGainerLoser"
    /\ input.data = MOVER
    /\ record.kind = "return"
    /\ FieldOf(record.value, <<"change_percentage">>) = Float(125, 1)
    /\ FieldOf(record.value, <<"price">>) = Float(10, 0)
    /\ FieldOf(record.value, <<"volume">>) = PyInt(1000000)
    /\ FieldOf(record.value, <<"ticker">>) = Str(<<"XYZ">>)
    /\ FieldOf(record.value, <<"change_amount">>) = None

--------------------------------------------------------------------------
(* Properties: what the operations return, and in which order they work *)

\* the operations on time series, forex and crypto
PassthroughOps ==
    {"get_time_series_intraday", "get_time_series_daily", "get_time_series_daily_adjusted",
     "get_time_series_weekly", "get_time_series_weekly_adjusted", "get_time_series_monthly",
     "get_time_series_monthly_adjusted", "get_forex_intraday", "get_forex_daily",
     "get_forex_weekly", "get_forex_monthly", "get_crypto_intraday", "get_crypto_daily",
     "get_crypto_weekly", "get_crypto_monthly"}

\* the operations that build a response model
StructuredOps ==
    {"get_company_overview", "get_income_statement", "get_balance_sheet", "get_cash_flow",
     "get_earnings", "get_news_sentiment", "get_top_gainers_losers"}

\* _make_request has returned a payload to the last operation
Delivered == Answered /\ made.kind = "return"

\* C21: a time-series, forex or crypto operation returns the decoded body
\* that _make_request returned, as it is; a structured operation that
\* returns, returns the model of its endpoint built from that body, and never
\* the body itself.
C21_ReturnedValue ==
    Delivered
    => /\ made = Return(Body.val)
       /\ call.op \in PassthroughOps => result = made
       /\ call.op \in StructuredOps
          => /\ result # made
             /\ result = Construct(ResponseModel(call.op), made.value)
             /\ result.kind = "return"
                => /\ result.value.t = "model"
                   /\ result.value.v.cls = ResponseModel(call.op)

\* get_income_statement has returned an IncomeStatement built from the payload
C21_Witness ==
    /\ Delivered
    /\ call.op = "get_income_statement"
    /\ result.kind = "return"
    /\ result.value.t = "model"
    /\ result.value.v.cls = "IncomeStatement"
    /\ result # made

\* the client holds these three values
Holds(key, url, handle) == api_key = key /\ base_url = url /\ session = handle

\* C22: once the client is constructed no operation, whether it returns or
\* fails, changes api_key, base_url or session; every request is made with
\* these values, and the outcome of a call is the one its answer calls for,
\* whatever the calls before it did.
C22_ClientFixed ==
    [][/\ instance = "live"
          => /\ instance' = "live"
             /\ Holds(api_key', base_url', session')
       /\ pc' = "awaiting"
          => \A i \in 1..Len(sent') :
                /\ sent'[i].url = base_url
                /\ DictHas(sent'[i].params, <<"apikey">>)
                /\ DictGet(sent'[i].params, <<"apikey">>) = api_key
       /\ (pc = "awaiting" /\ pc' = "idle")
          => /\ made' = Dispatch(call.function, reply').result
             /\ result' = Finish(call.op, made')]_vars

\* a second call has failed and the client still holds the key, the URL and
\* the session of its construction
C22_Witness ==
    /\ instance = "live"
    /\ calls = 2
    /\ pc = "idle"
    /\ result.kind = "raise"
    /\ Holds(Str(<<"KEY1">>), DEFAULT_BASE_URL, Str(<<"requests.Session">>))

\* C23: a structured operation sends its request, then has the response
\* classified, then builds its model: while the request is unanswered nothing
\* is classified or built; the model is built only from a payload that
\* _make_request returned; and when _make_request raised (APIError,
\* RateLimitError) nothing is built and the caller gets that error as it is.
C23_Order ==
    call.op \in StructuredOps
    => /\ pc = "awaiting"
          => /\ Len(sent) = 1
             /\ reply = NoReply
             /\ made = NoResult
             /\ result = NoResult
       /\ pc = "idle"
          => /\ Len(sent) = 1
             /\ reply # NoReply
             /\ made.kind \in {"return", "raise"}
             /\ made.kind = "raise" => result = made
             /\ result # made
                => /\ made = Return(Body.val)
                   /\ result = Construct(ResponseModel(call.op), made.value)

\* get_top_gainers_losers has failed with the RateLimitError that
\* _make_request raised for the call-frequency note
C23_Witness ==
    /\ Answered
    /\ call.op = "get_top_gainers_losers"
    /\ FrequencyNote
    /\ made = RateLimitError(NoteValue)
    /\ result = made

--------------------------------------------------------------------------
(* Properties: the precedence of the checks of _make_request *)

\* C24: _make_request checks the status first, then "Error Message", then
\* "Note": a response whose status is not 200 ends in APIError with that
\* status and the text of the body, whatever the body holds; a 200 body with
\* an "Error Message" ends in APIError, also when it has a call-frequency
\* note; RateLimitError is raised only for a 200 body without "Error Message".
C24_Precedence ==
    Answered
    => /\ reply.status_code # 200
          => made = APIError(reply.status_code, Str(reply.text))
       /\ (reply.status_code = 200 /\ HasKey(<<"Error Message">>))
          => made = APIError(200, ErrorMessageValue)
       /\ made.exc = "RateLimitError"
          => /\ reply.status_code = 200
             /\ ~HasKey(<<"Error Message">>)
             /\ FrequencyNote

\* a 200 body with both an "Error Message" and a call-frequency note has
\* ended in APIError
C24_Witness ==
    /\ Answered
    /\ reply.status_code = 200
    /\ HasKey(<<"Error Message">>)
    /\ FrequencyNote
    /\ made = APIError(200, ErrorMessageValue)
    /\ result = made

--------------------------------------------------------------------------
(* Properties: the request of get_time_series_intraday *)

\* the argument of the last operation under this name
Arg(name) == DictGet(call.args, <<name>>)

\* the text a flag is sent as
FlagText(flag) == IF flag = Bool(TRUE) THEN Str(<<"true">>) ELSE Str(<<"false">>)

\* C25: get_time_series_intraday with a non-empty month requests
\* TIME_SERIES_INTRADAY_EXTENDED with the parameter "month"; with month None
\* or empty it requests TIME_SERIES_INTRADAY without a parameter "month"; in
\* both cases adjusted and extended_hours go as the strings "true" or "false".
C25_IntradayEndpoint ==
    (call.op = "get_time_series_intraday" /\ sent # <<>>)
    => \A i \in 1..Len(sent) :
          LET params == sent[i].params
          IN  /\ IF Arg("month") \in {None, Str(<<>>)}
                 THEN /\ call.function = Str(<<"TIME_SERIES_INTRADAY">>)
                      /\ ~DictHas(params, <<"month">>)
                 ELSE /\ call.function = Str(<<"TIME_SERIES_INTRADAY_EXTENDED">>)
                      /\ DictHas(params, <<"month">>)
                      /\ DictGet(params, <<"month">>) = Arg("month")
              /\ DictHas(params, <<"function">>)
              /\ DictGet(params, <<"function">>) = call.function
              /\ DictHas(params, <<"adjusted">>)
              /\ DictGet(params, <<"adjusted">>) = FlagText(Arg("adjusted"))
              /\ DictHas(params, <<"extended_hours">>)
              /\ DictGet(params, <<"extended_hours">>) = FlagText(Arg("extended_hours"))

\* get_time_series_intraday with month "2024-01", adjusted False and
\* extended_hours True has requested TIME_SERIES_INTRADAY_EXTENDED with
\* month "2024-01", adjusted "false" and extended_hours "true"
C25_Witness ==
    /\ call.op = "get_time_series_intraday"
    /\ Len(sent) = 1
    /\ Arg("month") = Str(<<"2024-01">>)
    /\ Arg("adjusted") = Bool(FALSE)
    /\ Arg("extended_hours") = Bool(TRUE)
    /\ DictGet(sent[1].params, <<"function">>) = Str(<<"TIME_SERIES_INTRADAY_EXTENDED">>)
    /\ DictHas(sent[1].params, <<"month">>)
    /\ DictGet(sent[1].params, <<"month">>) = Str(<<"2024-01">>)
    /\ DictGet(sent[1].params, <<"adjusted">>) = Str(<<"false">>)
    /\ DictGet(sent[1].params, <<"extended_hours">>) = Str(<<"true">>)

--------------------------------------------------------------------------
(* Properties: a body that is no JSON *)

\* C26: a response of status 200 whose body is no JSON gives no payload and
\* no decoding exception: the operation fails with APIError of status 500,
\* raised by the handler of the transport failures, although the status of
\* the response is 200.
C26_UndecodableBody ==
    (Answered /\ reply.status_code = 200 /\ ~Body.ok)
    => /\ made.kind = "raise"
       /\ made.exc = "APIError"
       /\ made.status_code = 500
       /\ made = RequestFailed(JSONDecodeErrorText).result
       /\ result = made

\* a 200 response with an HTML body has ended in APIError of status 500
C26_Witness ==
    /\ Answered
    /\ reply.status_code = 200
    /\ reply.text = GARBAGE_TEXT
    /\ ~Body.ok
    /\ result = APIError(500, Str(<<"Request failed: ">> \o JSONDecodeErrorText))

====
